---- MODULE Spec2Model ----
(***************************************************************************)
(* Job-Finder backend: the match orchestration layer (jobController.js),   *)
(* the match explanation agent, the match-status endpoint, job identity,   *)
(* deduplication and the job aggregator.                                   *)
(*                                                                         *)
(* Node runs one handler at a time; a handler gives up control only at an  *)
(* await.  Every action below is one such uninterrupted stretch: it starts *)
(* where an awaited cache / LLM / source operation completes (the          *)
(* operation takes effect there) and runs to the next await or to the end. *)
(***************************************************************************)
EXTENDS Integers, Sequences, FiniteSets, TLC

VARIABLES
    cache,                      \* Redis: match key -> stored payload (NullMatch when absent)
    pendingMatchComputations,   \* jobController.js:21, the in-process Set
    calls,                      \* getMatchOrSchedule invocations, by call number
    tasks,                      \* setImmediate callbacks queued by scheduleMatchExplanation
    explainCalls,               \* history: explainMatch invocations per match key
    disturbed,                  \* history: a cache fault, a task exception or a TTL expiry happened
    llmConfigured,              \* config.GEMINI_API_KEY is set (this.llm exists)
    status,                     \* getMatchStatus: the request handled last and its response
    score,                      \* computeBaseScore / explainMatch: inputs and results
    dedup,                      \* uniqueById: input list and result
    agg,                        \* aggregateJobs: one call's local state
    jsearch,                    \* searchJSearch: the clock, lastRateLimitHit and the calls
    search,                     \* searchJobs: the aggregate cache, the requests and responses
    norm,                       \* normalizeJobWithCache: the normalized-job cache and the calls
    derived                     \* the cache keys derived for profiles, jobs and criteria

vars == <<cache, pendingMatchComputations, calls, tasks, explainCalls, disturbed,
          llmConfigured, status, score, dedup, agg, jsearch, search, norm, derived>>

matchVars == <<cache, pendingMatchComputations, calls, tasks, explainCalls, disturbed,
               llmConfigured>>

Idle == [pc |-> "unused"]

\* the state of the handlers that a match orchestration step does not touch
OutsideMatch == <<status, score, dedup, agg, jsearch, search, norm, derived>>

(***************************************************************************)
(* Bounds                                                                  *)
(***************************************************************************)
MaxCalls == 2

CallIds == 1..MaxCalls

(***************************************************************************)
(* Keys                                                                    *)
(***************************************************************************)
ProfileKeys == {"p1"}

\* raw jobs as the source client builds them: every one carries an id
RawJobs == { [id |-> "j1"], [id |-> "j2"] }

getJobCacheKeyOfId(job) == job.id

\* the key without the separator between its parts
getMatchRedisKeyUnseparated(profileKey, jobKey) == "match:" \o profileKey \o jobKey

getMatchRedisKey(profileKey, jobKey) == "match:" \o profileKey \o ":" \o jobKey

MatchKeys == { getMatchRedisKey(p, getJobCacheKeyOfId(j)) : p \in ProfileKeys, j \in RawJobs }

(***************************************************************************)
(* Match payloads                                                          *)
(***************************************************************************)
NullMatch == [status |-> "null", score |-> 0, summary |-> "", suggestions |-> <<>>]

PendingSummary == "Generating match explanation"

\* the arguments getMatchOrSchedule is called with by searchJobs: the base score
\* is computeBaseScore(profile, normalizedJob) of the job
MatchRequests ==
    { [profileKey |-> "p1", rawJob |-> [id |-> "j1"], baseScore |-> 35],
      [profileKey |-> "p1", rawJob |-> [id |-> "j2"], baseScore |-> 85] }

generateBasicSummary(s) ==
    IF s >= 80 THEN "Excellent match"
    ELSE IF s >= 60 THEN "Good match"
    ELSE IF s >= 40 THEN "Moderate match"
    ELSE "Limited match"

buildPendingMatchZeroScore(baseScore) ==
    [status |-> "pending", score |-> 0, summary |-> PendingSummary, suggestions |-> <<>>]
buildPendingMatch(baseScore) ==
    [status |-> "pending", score |-> baseScore, summary |-> PendingSummary,
     suggestions |-> <<>>]

Max2(a, b) == IF a >= b THEN a ELSE b
Min2(a, b) == IF a <= b THEN a ELSE b

\* Number(aiMatch.score) || baseScore, then clamped: NaN and 0 are falsy
ClampLLMScore(reply, baseScore) ==
    Min2(100, Max2(0, IF reply.numeric /\ reply.score # 0 THEN reply.score ELSE baseScore))

\* what the LLM chain may resolve to (score, summary, suggestions present or not)
LLMReplies ==
    { [numeric |-> FALSE, score |-> 0,   summary |-> "",   suggestions |-> FALSE],
      [numeric |-> TRUE,  score |-> 250, summary |-> "ai", suggestions |-> TRUE] }

\* explainMatch without an LLM, or after the LLM call failed
RuleBasedMatch(baseScore) ==
    [score |-> baseScore, summary |-> generateBasicSummary(baseScore),
     suggestions |-> <<"basic">>]

\* explainMatch after the LLM chain resolved
AiMatch(reply, baseScore) ==
    [score |-> ClampLLMScore(reply, baseScore),
     summary |-> IF reply.summary # "" THEN reply.summary ELSE generateBasicSummary(baseScore),
     suggestions |-> IF reply.suggestions THEN <<"ai">> ELSE <<>>]

\* { ...detailed, status: 'ready' }
FinalMatch(detailed) ==
    [status |-> "ready", score |-> detailed.score, summary |-> detailed.summary,
     suggestions |-> detailed.suggestions]

(***************************************************************************)
(* Cache layer (config/redis): outcome of one operation                    *)
(*   "ok"    the command ran                                               *)
(*   "down"  ensureConnection returned false                               *)
(*   "error" the connection is open and the command rejected               *)
(***************************************************************************)
CacheOutcomes == {"ok", "down", "error"}

getJson(store, key, out) == IF out = "ok" THEN store[key] ELSE NullMatch

setJsonDespiteFault(store, key, value, out) == [store EXCEPT ![key] = value]
setJson(store, key, value, out) == IF out = "ok" THEN [store EXCEPT ![key] = value] ELSE store

(***************************************************************************)
(* Calls and tasks                                                         *)
(***************************************************************************)
\* base, placeholder: locals of a call waiting in `await setJson`
\* path: "hit" / "miss" (the read ran and found something / nothing), "unread"
\* (getJson gave null because the backend was unreachable)
\* wrote: the placeholder write reached the cache (setJson returned true)
\* returned: the status of the match the call returned; match: that match
NoCall == [pc |-> "idle", key |-> "", base |-> 0, placeholder |-> NullMatch, path |-> "",
           wrote |-> FALSE, returned |-> "", match |-> NullMatch]
NoTask == [pc |-> "none", key |-> "", base |-> 0, detailed |-> NullMatch]

ActivePcs == {"queued", "llm", "write"}

ActiveTasks(k) == { t \in CallIds : tasks[t].pc \in ActivePcs /\ tasks[t].key = k }

\* the guard in front of both scheduling sites
MayScheduleUnguarded(pending, key) == TRUE
MayScheduleInverted(pending, key) == key \in pending
MaySchedule(pending, key) == key \notin pending

\* scheduleMatchExplanation: queue the callback (it runs in a later turn)
scheduleMatchExplanation(ts, c, key, base) ==
    [ts EXCEPT ![c] = [pc |-> "queued", key |-> key, base |-> base, detailed |-> NullMatch]]

InitMatch ==
    /\ cache = [k \in MatchKeys |-> NullMatch]
    /\ pendingMatchComputations = {}
    /\ calls = [c \in CallIds |-> NoCall]
    /\ tasks = [c \in CallIds |-> NoTask]
    /\ explainCalls = [k \in MatchKeys |-> 0]
    /\ disturbed = FALSE
    /\ llmConfigured \in BOOLEAN

IdleMatch ==
    /\ cache = [k \in MatchKeys |-> NullMatch]
    /\ pendingMatchComputations = {}
    /\ calls = [c \in CallIds |-> NoCall]
    /\ tasks = [c \in CallIds |-> NoTask]
    /\ explainCalls = [k \in MatchKeys |-> 0]
    /\ disturbed = FALSE
    /\ llmConfigured = FALSE

\* calls are numbered in the order they are issued
NextCall(c) == calls[c].pc = "idle" /\ \A d \in CallIds : d < c => calls[d].pc # "idle"

\* getMatchOrSchedule without a profile: lines 282-284
GetMatchOrScheduleNoProfile(c) ==
    /\ NextCall(c)
    /\ calls' = [calls EXCEPT ![c] = [NoCall EXCEPT !.pc = "done", !.path = "none", !.returned = "unavailable"]]
    /\ UNCHANGED <<cache, pendingMatchComputations, tasks, explainCalls, disturbed,
                   llmConfigured>>
    /\ UNCHANGED OutsideMatch

\* getMatchOrSchedule from its start to the end of `await getJson(cacheKey)`
\* and on to the return (cache hit) or to `await setJson` (miss): lines 286-308
GetMatchOrSchedule(c, profileKey, rawJob, baseScore, out) ==
    LET key == getMatchRedisKey(profileKey, getJobCacheKeyOfId(rawJob))
        cached == getJson(cache, key, out)
        \* cached.status || 'ready': every stored payload carries a status
        st == cached.status
    IN  /\ NextCall(c)
        /\ disturbed' = (disturbed \/ out # "ok")
        /\ IF out = "error"
           THEN /\ calls' = [calls EXCEPT ![c] = [NoCall EXCEPT !.pc = "threw"]]
                /\ UNCHANGED <<pendingMatchComputations, tasks>>
           ELSE IF cached # NullMatch
           THEN /\ calls' = [calls EXCEPT ![c] =
                        [NoCall EXCEPT !.pc = "done", !.key = key, !.path = "hit",
                                       !.returned = st, !.match = cached]]
                /\ IF st = "pending" /\ MaySchedule(pendingMatchComputations, key)
                   THEN /\ pendingMatchComputations' = pendingMatchComputations \cup {key}
                        /\ tasks' = scheduleMatchExplanation(tasks, c, key, baseScore)
                   ELSE UNCHANGED <<pendingMatchComputations, tasks>>
           ELSE /\ calls' = [calls EXCEPT ![c] =
                        [NoCall EXCEPT !.pc = "set", !.key = key, !.base = baseScore,
                                       !.path = IF out = "ok" THEN "miss" ELSE "unread",
                                       !.placeholder = buildPendingMatch(baseScore)]]
                /\ UNCHANGED <<pendingMatchComputations, tasks>>
        /\ UNCHANGED <<cache, explainCalls, llmConfigured>>
        /\ UNCHANGED OutsideMatch

\* getMatchOrSchedule from the end of `await setJson(cacheKey, placeholder)` to
\* its return: lines 308-325
GetMatchOrScheduleStore(c, out) ==
    LET key == calls[c].key
        placeholder == calls[c].placeholder
    IN  /\ calls[c].pc = "set"
        /\ disturbed' = (disturbed \/ out # "ok")
        /\ cache' = setJson(cache, key, placeholder, out)
        /\ IF out = "error"
           THEN /\ calls' = [calls EXCEPT ![c] = [NoCall EXCEPT !.pc = "threw"]]
                /\ UNCHANGED <<pendingMatchComputations, tasks>>
           ELSE /\ calls' = [calls EXCEPT ![c] =
                        [NoCall EXCEPT !.pc = "done", !.key = key, !.path = calls[c].path,
                                       !.wrote = (out = "ok"),
                                       !.returned = placeholder.status,
                                       !.match = placeholder]]
                /\ IF MaySchedule(pendingMatchComputations, key)
                   THEN /\ pendingMatchComputations' = pendingMatchComputations \cup {key}
                        /\ tasks' = scheduleMatchExplanation(tasks, c, key, calls[c].base)
                   ELSE UNCHANGED <<pendingMatchComputations, tasks>>
        /\ UNCHANGED <<explainCalls, llmConfigured>>
        /\ UNCHANGED OutsideMatch

\* the finally block of the callback: lines 272-276
EndTaskLeaky(t) ==
    /\ tasks' = [tasks EXCEPT ![t] = [NoTask EXCEPT !.pc = "ended"]]
    /\ UNCHANGED pendingMatchComputations
EndTask(t) ==
    /\ tasks' = [tasks EXCEPT ![t] = [NoTask EXCEPT !.pc = "ended"]]
    /\ pendingMatchComputations' = pendingMatchComputations \ {tasks[t].key}

\* the setImmediate callback starts and invokes agent.explainMatch: lines 262-266
\* together with explainMatch lines 53-82.  Without an LLM explainMatch has no
\* await of its own and the callback runs on to `await setJson`.
RunScheduledTask(t, throws) ==
    /\ tasks[t].pc = "queued"
    /\ explainCalls' = [explainCalls EXCEPT ![tasks[t].key] = @ + 1]
    /\ disturbed' = (disturbed \/ throws)
    /\ IF throws
       THEN EndTask(t)
       ELSE /\ tasks' = [tasks EXCEPT ![t] =
                    IF llmConfigured
                    THEN [@ EXCEPT !.pc = "llm"]
                    ELSE [@ EXCEPT !.pc = "write",
                                   !.detailed = RuleBasedMatch(tasks[t].base)]]
            /\ UNCHANGED pendingMatchComputations
    /\ UNCHANGED <<cache, calls, llmConfigured>>
    /\ UNCHANGED OutsideMatch

\* chain.invoke settles: explainMatch lines 83-103, then the callback goes on to
\* `await setJson`
ExplainMatchSettles(t, ok, reply) ==
    /\ tasks[t].pc = "llm"
    /\ tasks' = [tasks EXCEPT ![t] =
            [@ EXCEPT !.pc = "write",
                      !.detailed = IF ok THEN AiMatch(reply, tasks[t].base)
                                         ELSE RuleBasedMatch(tasks[t].base)]]
    /\ UNCHANGED <<cache, pendingMatchComputations, calls, explainCalls, disturbed,
                   llmConfigured>>
    /\ UNCHANGED OutsideMatch

\* `await setJson(cacheKey, finalMatch)` completes, then catch / finally:
\* lines 267-276
StoreFinalMatch(t, out) ==
    /\ tasks[t].pc = "write"
    /\ disturbed' = (disturbed \/ out # "ok")
    /\ cache' = setJson(cache, tasks[t].key, FinalMatch(tasks[t].detailed), out)
    /\ EndTask(t)
    /\ UNCHANGED <<calls, explainCalls, llmConfigured>>
    /\ UNCHANGED OutsideMatch

\* Redis drops an entry whose TTL (MATCH_CACHE_TTL_SECONDS) has run out
ExpireMatch(k) ==
    /\ cache[k] # NullMatch
    /\ cache' = [cache EXCEPT ![k] = NullMatch]
    /\ disturbed' = TRUE
    /\ UNCHANGED <<pendingMatchComputations, calls, tasks, explainCalls, llmConfigured>>
    /\ UNCHANGED OutsideMatch

Next ==
    \/ \E c \in CallIds : GetMatchOrScheduleNoProfile(c)
    \/ \E c \in CallIds, r \in MatchRequests, out \in CacheOutcomes :
          GetMatchOrSchedule(c, r.profileKey, r.rawJob, r.baseScore, out)
    \/ \E c \in CallIds, out \in CacheOutcomes : GetMatchOrScheduleStore(c, out)
    \/ \E t \in CallIds, throws \in BOOLEAN : RunScheduledTask(t, throws)
    \/ \E t \in CallIds, ok \in BOOLEAN, reply \in LLMReplies : ExplainMatchSettles(t, ok, reply)
    \/ \E t \in CallIds, out \in CacheOutcomes : StoreFinalMatch(t, out)
    \/ \E k \in MatchKeys : ExpireMatch(k)

Init ==
    /\ InitMatch
    /\ status = Idle
    /\ score = Idle
    /\ dedup = Idle
    /\ agg = Idle
    /\ jsearch = Idle
    /\ search = Idle
    /\ norm = Idle
    /\ derived = Idle

Spec == Init /\ [][Next]_vars

\* the event loop runs every queued callback and every settled continuation;
\* the LLM call and the cache write of a task are taken to settle
TaskStep ==
    \/ \E t \in CallIds, throws \in BOOLEAN : RunScheduledTask(t, throws)
    \/ \E t \in CallIds, ok \in BOOLEAN, reply \in LLMReplies : ExplainMatchSettles(t, ok, reply)
    \/ \E t \in CallIds, out \in CacheOutcomes : StoreFinalMatch(t, out)

SpecFair == Spec /\ WF_vars(TaskStep)

(***************************************************************************)
(* Claims on the match orchestration layer                                 *)
(***************************************************************************)

\* C1: for every match key at most one background explanation task is
\* scheduled and not yet finished, and the key is in pendingMatchComputations
\* exactly while that task exists.
C1_AtMostOneTaskPerKey ==
    \A k \in MatchKeys :
        /\ Cardinality(ActiveTasks(k)) <= 1
        /\ (k \in pendingMatchComputations) <=> (ActiveTasks(k) # {})

\* C1 witness: two calls for one key both went through the miss path while a
\* single task for the key is in flight.
C1_Witness ==
    \E c, d \in CallIds :
        /\ c # d
        /\ calls[c].pc = "done" /\ calls[d].pc = "done"
        /\ calls[c].path = "miss" /\ calls[d].path = "miss"
        /\ calls[c].key = calls[d].key
        /\ Cardinality(ActiveTasks(calls[c].key)) = 1

\* every call number was used for a call on key k that read an empty cache and
\* has returned, and no task is left
AllCallsMissedAndReturned(k) ==
    /\ \A c \in CallIds : calls[c].pc = "done" /\ calls[c].key = k /\ calls[c].path = "miss"
    /\ \A t \in CallIds : tasks[t].pc \notin ActivePcs

\* C2 (as claimed): when the concurrent calls for one key all found the cache
\* empty and all calls and background work have finished, with no cache fault
\* and no expiry, explainMatch was invoked exactly once for the key.
C2_ExplainInvokedOnce ==
    \A k \in MatchKeys :
        (~disturbed /\ AllCallsMissedAndReturned(k)) => explainCalls[k] = 1

\* C3 (as claimed): no step without a fault or expiry replaces a 'ready' entry
\* by a 'pending' one.
C3_ReadyNeverPendingAgain ==
    [][ \A k \in MatchKeys :
          (cache[k].status = "ready" /\ ~disturbed') => cache'[k].status # "pending" ]_vars

\* a call takes the step that ends the miss path; what it returns is the
\* placeholder it built before `await setJson`
ReturnsFromMiss(c) == calls[c].pc = "set" /\ calls'[c].pc = "done" /\ calls[c].path = "miss"

\* C4 (as claimed): a call that found no cached entry returns the pending
\* placeholder (score = supplied base score, no suggestions), and on return the
\* cache holds that placeholder, the key is in pendingMatchComputations and one
\* task for the key is scheduled.
C4_PlaceholderStoredOnReturn ==
    [][ \A c \in CallIds : ReturnsFromMiss(c) =>
          /\ calls[c].placeholder = [status |-> "pending", score |-> calls[c].base,
                                     summary |-> PendingSummary, suggestions |-> <<>>]
          /\ calls'[c].returned = calls[c].placeholder.status
          /\ cache'[calls[c].key] = calls[c].placeholder
          /\ calls[c].key \in pendingMatchComputations'
          /\ Cardinality({ t \in CallIds : tasks'[t].pc \in ActivePcs
                                           /\ tasks'[t].key = calls[c].key }) = 1 ]_vars

\* C4 (amended): as C4, except that the cache holds the placeholder when the
\* placeholder write reached the cache (setJson returned true) and is left
\* unchanged when the backend was unreachable (setJson returned false).
C4_PlaceholderReturned ==
    [][ \A c \in CallIds : ReturnsFromMiss(c) =>
          /\ calls[c].placeholder = [status |-> "pending", score |-> calls[c].base,
                                     summary |-> PendingSummary, suggestions |-> <<>>]
          /\ calls'[c].returned = calls[c].placeholder.status
          /\ IF calls'[c].wrote THEN cache'[calls[c].key] = calls[c].placeholder
                                ELSE cache' = cache
          /\ calls[c].key \in pendingMatchComputations'
          /\ Cardinality({ t \in CallIds : tasks'[t].pc \in ActivePcs
                                           /\ tasks'[t].key = calls[c].key }) = 1 ]_vars

\* C4 witness: a call has just returned from the miss path: its placeholder is
\* in the cache, its key is pending and its own task is queued.
C4_Witness ==
    \E c \in CallIds :
        /\ calls[c].pc = "done" /\ calls[c].path = "miss" /\ calls[c].wrote
        /\ calls[c].returned = "pending"
        /\ tasks[c].pc = "queued" /\ tasks[c].base = 85
        /\ cache[calls[c].key] = [status |-> "pending", score |-> 85,
                                   summary |-> PendingSummary, suggestions |-> <<>>]
        /\ calls[c].key \in pendingMatchComputations

ReturnedPending(k) ==
    \E c \in CallIds : calls[c].pc = "done" /\ calls[c].key = k /\ calls[c].returned = "pending"

\* what a later getMatchOrSchedule or match-status read of k returns is 'ready'
\* and carries an explanation summary
ReadsReady(k) ==
    /\ getJson(cache, k, "ok").status = "ready"
    /\ getJson(cache, k, "ok").summary \notin {"", PendingSummary}

\* C5: once a call has returned a 'pending' placeholder for a key, then, unless
\* a cache operation fails, a task throws or the entry expires, the entry
\* eventually is 'ready' with a summary.
C5_PendingLeadsToReady ==
    \A k \in MatchKeys : ReturnedPending(k) ~> (disturbed \/ ReadsReady(k))

\* C5 witness: a key whose placeholder was returned is now 'ready' with a
\* summary, without any fault or expiry.
C5_Witness ==
    \E k \in MatchKeys : ReturnedPending(k) /\ ReadsReady(k) /\ ~disturbed

\* the step by which call c returns from the cache-hit path (lines 291-302)
ReturnsFromHit(c) == calls[c].pc = "idle" /\ calls'[c].pc = "done" /\ calls'[c].path = "hit"

\* the task slots a step has changed
TouchedTasks == { t \in CallIds : tasks'[t] # tasks[t] }

\* C17: a getMatchOrSchedule call that finds a cached entry returns that entry
\* and leaves the cache as it is; if the entry is 'pending' and its key is not
\* in pendingMatchComputations the call adds the key and schedules exactly one
\* background task; if the key is already in the set, or the entry is 'ready',
\* it schedules nothing.
C17_PendingHitSchedulesOnce ==
    [][ \A c \in CallIds : ReturnsFromHit(c) =>
          LET k == calls'[c].key
          IN  /\ calls'[c].match = cache[k]
              /\ calls'[c].returned = cache[k].status
              /\ cache' = cache
              /\ IF cache[k].status = "pending" /\ k \notin pendingMatchComputations
                 THEN /\ pendingMatchComputations' = pendingMatchComputations \cup {k}
                      /\ Cardinality(TouchedTasks) = 1
                      /\ \A t \in TouchedTasks :
                            tasks[t].pc = "none" /\ tasks'[t].pc = "queued" /\ tasks'[t].key = k
                 ELSE /\ pendingMatchComputations' = pendingMatchComputations
                      /\ tasks' = tasks ]_vars

\* C17 witness: a call found the 'pending' placeholder of a key whose task was
\* still in flight: it returned the placeholder and scheduled nothing.
C17_Witness ==
    \E c, d \in CallIds :
        /\ c # d
        /\ calls[c].pc = "done" /\ calls[c].path = "hit" /\ calls[c].returned = "pending"
        /\ calls[c].match = cache[calls[c].key]
        /\ tasks[c].pc = "none"
        /\ tasks[d].pc \in ActivePcs /\ tasks[d].key = calls[c].key
        /\ calls[c].key \in pendingMatchComputations

\* the step by which task t ends with an exception: explainMatch threw, or the
\* cache write threw
TaskFails(t) == RunScheduledTask(t, TRUE) \/ StoreFinalMatch(t, "error")

\* the step by which task t ends, with or without an exception
TaskEnds(t) == tasks[t].pc \in ActivePcs /\ tasks'[t].pc = "ended"

C13_CacheFailsSoft ==
    \A c \in CallIds :
        /\ calls[c].pc # "threw"
        /\ (calls[c].pc = "done" /\ calls[c].path # "none") => calls[c].match # NullMatch

(***************************************************************************)
(* The match status endpoint: getMatchStatus                               *)
(*                                                                         *)
(* The `keys` query parameter is a string; it is modelled as a sequence of *)
(* tokens, where "," is the separator, " " is white space and every other  *)
(* token is a run of ordinary characters.  A key is the concatenation of   *)
(* the tokens of its piece.  The reads of one request are taken against    *)
(* one cache content.                                                      *)
(***************************************************************************)

\* uniqueKeys is cut to this many keys
StatusKeyCap == 25

\* the largest run of keys absent from the cache that a request carries
MaxPhantomKeys == 26

MatchPrefix == "match:"

RECURSIVE firstSeparator(_, _)
\* the position of the first separator of q at or after i, Len(q) + 1 if none
firstSeparator(q, i) ==
    IF i > Len(q) \/ q[i] = "," THEN i ELSE firstSeparator(q, i + 1)

RECURSIVE split(_)
\* String.prototype.split(','): the pieces between the separators
split(q) ==
    LET i == firstSeparator(q, 1)
    IN  IF i > Len(q) THEN <<q>>
        ELSE <<SubSeq(q, 1, i - 1)>> \o split(SubSeq(q, i + 1, Len(q)))

RECURSIVE trimStart(_)
trimStart(p) == IF p # <<>> /\ Head(p) = " " THEN trimStart(Tail(p)) ELSE p

RECURSIVE trimEnd(_)
trimEnd(p) == IF p # <<>> /\ p[Len(p)] = " " THEN trimEnd(SubSeq(p, 1, Len(p) - 1)) ELSE p

\* String.prototype.trim
trim(p) == trimEnd(trimStart(p))

RECURSIVE Flatten(_)
\* the string a piece stands for
Flatten(p) == IF p = <<>> THEN "" ELSE Head(p) \o Flatten(Tail(p))

\* key.startsWith(prefix); the prefix is a token of its own in every request
startsWithAnything(p, prefix) == TRUE
startsWith(p, prefix) == p # <<>> /\ Head(p) = prefix

RECURSIVE uniqueSeq(_, _)
\* Array.from(new Set(xs)): first occurrences, in insertion order
uniqueSeq(xs, seen) ==
    IF xs = <<>> THEN <<>>
    ELSE IF Head(xs) \in seen THEN uniqueSeq(Tail(xs), seen)
         ELSE <<Head(xs)>> \o uniqueSeq(Tail(xs), seen \cup {Head(xs)})

\* Array.prototype.slice(0, n)
sliceTo(xs, n) == SubSeq(xs, 1, Min2(Len(xs), n))

RECURSIVE trimmedNonEmpty(_)
\* .map((piece) => piece.trim()).filter(Boolean)
trimmedNonEmpty(ps) ==
    IF ps = <<>> THEN <<>>
    ELSE IF trim(Head(ps)) = <<>> THEN trimmedNonEmpty(Tail(ps))
    ELSE <<trim(Head(ps))>> \o trimmedNonEmpty(Tail(ps))

\* the keys of a request: split, trim, filter(Boolean)
requestKeys(q) == trimmedNonEmpty(split(q))

RECURSIVE validKeys(_)
\* keys.filter((key) => key.startsWith('match:')), as strings
validKeys(ps) ==
    IF ps = <<>> THEN <<>>
    ELSE IF startsWith(Head(ps), MatchPrefix) THEN <<Flatten(Head(ps))>> \o validKeys(Tail(ps))
    ELSE validKeys(Tail(ps))

\* uniqueKeys: the distinct keys that begin with 'match:', cut to the cap
uniqueKeysOf(q) == sliceTo(uniqueSeq(validKeys(requestKeys(q)), {}), StatusKeyCap)

\* one read of the endpoint: `stored || null`, and null when getJson throws
readMatchKey(store, key, out) ==
    IF key \in DOMAIN store /\ out # "error" THEN getJson(store, key, out) ELSE NullMatch

NoStatus == [pc |-> "idle", query |-> <<>>, code |-> 0, error |-> "", results |-> <<>>,
             reads |-> {}, failed |-> {}]

\* the answer to query q whose uniqueKeys are the members of keySet
statusOf(store, q, keySet, outs) ==
        IF q = <<>>
        THEN [NoStatus EXCEPT !.pc = "done", !.code = 400,
                              !.error = "keys query parameter required"]
        ELSE IF keySet = {}
        THEN [NoStatus EXCEPT !.pc = "done", !.query = q, !.code = 400,
                              !.error = "No valid match keys provided"]
        ELSE [pc |-> "done", query |-> q, code |-> 200, error |-> "",
              results |-> [k \in keySet |->
                             readMatchKey(store, k, IF k \in DOMAIN outs THEN outs[k] ELSE "ok")],
              reads |-> keySet,
              failed |-> { k \in keySet \cap DOMAIN outs : outs[k] # "ok" }]

Range(xs) == { xs[i] : i \in 1..Len(xs) }

\* the response of getMatchStatus to query q when the read of key k has outcome outs[k]
matchStatusResponse(store, q, outs) == statusOf(store, q, Range(uniqueKeysOf(q)), outs)

\* the pieces of the requests
RealKey(j) == <<MatchPrefix, "p1:" \o j>>
PhantomKey(i) == <<MatchPrefix, "x" \o ToString(i)>>
OtherKey == <<"job:normalized:", "j1">>

RECURSIVE Join(_)
\* the query string whose pieces are ps
Join(ps) == IF ps = <<>> THEN <<>>
            ELSE IF Len(ps) = 1 THEN ps[1]
            ELSE ps[1] \o <<",">> \o Join(Tail(ps))

StatusHeads ==
    { <<>>,
      << RealKey("j1") >>,
      << <<" ">> \o RealKey("j1") \o <<" ">>, RealKey("j1") >>,
      << RealKey("j2"), <<>>, OtherKey >>,
      << OtherKey >>,
      << <<" ">> >> }

StatusTails == { <<>>, << RealKey("j1") >>, << RealKey("j2"), OtherKey >> }

PhantomRun(n) == [i \in 1..n |-> PhantomKey(i)]

StatusQueries ==
    { Join(h \o PhantomRun(n) \o t) : h \in StatusHeads, n \in 0..MaxPhantomKeys, t \in StatusTails }

\* what the cache may hold for a match key
StoredMatches ==
    { NullMatch, buildPendingMatch(35),
      [status |-> "ready", score |-> 85, summary |-> "Excellent match", suggestions |-> <<>>] }

InitStatus ==
    /\ cache \in [MatchKeys -> StoredMatches]
    /\ pendingMatchComputations = {}
    /\ calls = [c \in CallIds |-> NoCall]
    /\ tasks = [c \in CallIds |-> NoTask]
    /\ explainCalls = [k \in MatchKeys |-> 0]
    /\ disturbed = FALSE
    /\ llmConfigured = FALSE
    /\ status = NoStatus
    /\ score = Idle
    /\ dedup = Idle
    /\ agg = Idle
    /\ jsearch = Idle
    /\ search = Idle
    /\ norm = Idle
    /\ derived = Idle

\* getMatchStatus: lines 620-663
GetMatchStatus(q, outs) ==
    /\ status.pc = "idle"
    /\ status' = matchStatusResponse(cache, q, outs)
    /\ UNCHANGED <<matchVars, score, dedup, agg, jsearch, search, norm, derived>>

NextStatus ==
    \E q \in StatusQueries, outs \in [MatchKeys -> CacheOutcomes] : GetMatchStatus(q, outs)

SpecStatus == InitStatus /\ [][NextStatus]_vars

\* the pieces of the answered request, trimmed
AskedPieces == LET ps == split(status.query) IN [i \in 1..Len(ps) |-> trim(ps[i])]

\* the key at a position of the answered request, "" when the piece there does
\* not begin with 'match:'
AskedAt(ps, i) ==
    IF Len(ps[i]) > 0 /\ ps[i][1] = "match:" THEN Flatten(ps[i]) ELSE ""

\* the distinct asked keys that begin with 'match:'
AskedAmong(ps) == { AskedAt(ps, i) : i \in 1..Len(ps) } \ {""}

AskedMatchKeys == AskedAmong(AskedPieces)

\* the asked match keys that are among the first n distinct ones: fewer than n
\* other match keys stand before their first occurrence
FirstAmong(ps, n) ==
    { k \in AskedAmong(ps) :
        \E i \in 1..Len(ps) :
            /\ AskedAt(ps, i) = k
            /\ Cardinality({ AskedAt(ps, j) : j \in 1..(i - 1) } \ {"", k}) < n }

FirstAskedKeys(n) == FirstAmong(AskedPieces, n)

Cached(k) == IF k \in DOMAIN cache THEN cache[k] ELSE NullMatch

\* C6 (as claimed): the answer to a batch of keys is a results map with one
\* entry for every distinct input key beginning with 'match:', holding the
\* cached payload or null when the key is missing, and no other key is read or
\* answered.
C6_EntryForEveryMatchKey ==
    status.pc = "done" /\ status.query # <<>> =>
        /\ status.code = 200
        /\ DOMAIN status.results = AskedMatchKeys
        /\ status.reads = AskedMatchKeys
        /\ \A k \in AskedMatchKeys : status.results[k] = Cached(k)

\* C6 (amended): a batch with at least one key beginning with 'match:' is
\* answered by a results map whose entries are the first 25 distinct such
\* keys, each holding the cached payload, or null when the key is missing or
\* its read failed; exactly those keys are read.  A batch without such a key
\* is answered 400 and nothing is read.
C6_EntryForFirstMatchKeys ==
    status.pc = "done" =>
        IF status.query = <<>> \/ AskedMatchKeys = {}
        THEN status.code = 400 /\ status.reads = {} /\ status.results = <<>>
        ELSE /\ status.code = 200
             /\ DOMAIN status.results = FirstAskedKeys(StatusKeyCap)
             /\ status.reads = FirstAskedKeys(StatusKeyCap)
             /\ \A k \in FirstAskedKeys(StatusKeyCap) :
                    status.results[k] = IF k \in status.failed THEN NullMatch ELSE Cached(k)

\* C6 witness: a request with more distinct match keys than the cap, a key of
\* another namespace and a cached key was answered: 25 entries, the cached
\* payload among them, and a key past the cap left out.
C6_Witness ==
    /\ status.pc = "done" /\ status.code = 200
    /\ Cardinality(AskedMatchKeys) > StatusKeyCap
    /\ Cardinality(DOMAIN status.results) = StatusKeyCap
    /\ \E i \in 1..Len(split(status.query)) : trim(split(status.query)[i]) = OtherKey
    /\ \E k \in MatchKeys : k \in DOMAIN status.results /\ status.results[k].status = "ready"
    /\ \E k \in AskedMatchKeys : k \notin DOMAIN status.results

(***************************************************************************)
(* Rule-based scoring: computeBaseScore and the preference evaluator       *)
(*                                                                         *)
(* A string is a sequence of tokens (words, " " and ","); a word with      *)
(* capitals has its lower-case form in LowerOf.  String.includes is the    *)
(* occurrence of one token sequence inside another.  A null or missing     *)
(* string is the empty sequence, a missing mode or level the empty token.  *)
(* Years of experience are counted in half years.  The score is kept as a  *)
(* fraction (numerator over a common denominator) until Math.round.        *)
(***************************************************************************)

LowerOf(t) ==
    CASE t = "Python" -> "python"
      [] t = "Remote" -> "remote"
      [] t = "Hybrid" -> "hybrid"
      [] t = "Berlin" -> "berlin"
      [] t = "Munich" -> "munich"
      [] t = "UK" -> "uk"
      [] t = "United Kingdom" -> "united kingdom"
      [] t = "DE" -> "de"
      [] t = "Acme" -> "acme"
      [] t = "Corp" -> "corp"
      [] t = "Fintech" -> "fintech"
      [] t = "T" -> "t"
      [] t = "O" -> "o"
      [] t = "P" -> "p"
      [] OTHER -> t

\* String.prototype.toLowerCase
toLowerCase(str) == [i \in 1..Len(str) |-> LowerOf(str[i])]

\* String.prototype.includes
includes(a, b) == \E i \in 0..(Len(a) - Len(b)) : SubSeq(a, i + 1, i + Len(b)) = b

\* xs.map(toLowerCase) of a list of strings
lowerAll(xs) == [i \in 1..Len(xs) |-> toLowerCase(xs[i])]

\* xs.filter(s => profileSkills.some(ps => ps.includes(s) || s.includes(ps))).length
matchedSkills(xs, profileSkills) ==
    Cardinality({ i \in 1..Len(xs) :
        \E j \in 1..Len(profileSkills) :
            includes(profileSkills[j], xs[i]) \/ includes(xs[i], profileSkills[j]) })

\* normalizeStringArray of an array of strings: trim, drop the empty ones
normalizeStringArray(xs) == trimmedNonEmpty(xs)

\* toLowerUnique: lower-cased, first occurrences
toLowerUnique(xs) == uniqueSeq(lowerAll(xs), {})

\* firstTruthy over mode tokens
firstTruthy(a, b) == IF a # "" THEN a ELSE b

workModeMatchesExactly(preference, mode) == preference = mode
workModeMatchesPreference(preference, mode) ==
    IF preference = "" \/ mode = "" THEN TRUE
    ELSE IF preference = "remote" THEN mode \in {"remote", "hybrid"}
    ELSE IF preference = "hybrid" THEN mode = "hybrid"
    ELSE IF preference \in {"onsite", "on-site"} THEN mode \in {"onsite", "hybrid"}
    ELSE TRUE

REMOTE_KEYWORDS ==
    { <<"remote">>, <<"work", " ", "from", " ", "home">>, <<"wfh">>, <<"anywhere">>, <<"distributed">> }
HYBRID_KEYWORDS == { <<"hybrid">>, <<"flexible", " ", "location">>, <<"split", " ", "between">> }
ONSITE_KEYWORDS == { <<"on-site">>, <<"onsite">>, <<"on", " ", "site">>, <<"office-based">> }

RECURSIVE joinText(_)
\* parts.filter(Boolean).join(' ')
joinText(parts) ==
    IF parts = <<>> THEN <<>>
    ELSE IF Head(parts) = <<>> THEN joinText(Tail(parts))
    ELSE IF joinText(Tail(parts)) = <<>> THEN Head(parts)
    ELSE Head(parts) \o <<" ">> \o joinText(Tail(parts))

\* the raw job that is not passed (explainMatch calls computeBaseScore without options)
NoRawJob == [title |-> <<>>, company |-> <<>>, location |-> <<>>]

\* job.description, empty for the jobs that carry none
descriptionOf(job) == IF "description" \in DOMAIN job THEN job.description ELSE <<>>

\* the text the preference evaluator and inferWorkMode scan
jobTextOf(normalizedJob, rawJob) ==
    toLowerCase(joinText(<<normalizedJob.normalized.summary, descriptionOf(normalizedJob),
                           descriptionOf(rawJob), normalizedJob.title, rawJob.title>>))

inferWorkMode(normalizedJob, rawJob) ==
    LET text == jobTextOf(normalizedJob, rawJob)
    IN  IF normalizedJob.normalized.work_mode # "" THEN LowerOf(normalizedJob.normalized.work_mode)
        ELSE IF text = <<>> THEN ""
        ELSE IF \E k \in REMOTE_KEYWORDS : includes(text, k) THEN "remote"
        ELSE IF \E k \in HYBRID_KEYWORDS : includes(text, k) THEN "hybrid"
        ELSE IF \E k \in ONSITE_KEYWORDS : includes(text, k) THEN "onsite"
        ELSE ""

buildPreferenceSignals(profile) ==
    LET industriesList == normalizeStringArray(profile.preferred_industries)
        companiesList == normalizeStringArray(profile.target_companies)
        locationList == normalizeStringArray(profile.preferred_locations)
        interestsList == normalizeStringArray(profile.interests)
        preferredWorkModeList == SelectSeq(profile.preference_work_modes, LAMBDA w : w # "")
        legacyWorkMode == firstTruthy(profile.preference_work_mode,
                                      profile.inferred_preferences.work_mode_preference)
        resolvedWorkModes == IF Len(preferredWorkModeList) > 0 THEN preferredWorkModeList
                             ELSE IF legacyWorkMode # "" THEN <<legacyWorkMode>>
                             ELSE <<>>
    IN  [workMode |-> IF Len(resolvedWorkModes) > 0 THEN LowerOf(resolvedWorkModes[1]) ELSE "",
         locations |-> toLowerUnique(locationList),
         industries |-> toLowerUnique(industriesList),
         targetCompanies |-> toLowerUnique(companiesList),
         interestKeywords |-> toLowerUnique(interestsList \o industriesList)]

\* the parts of the adjustment of evaluateJobAgainstPreferences
workModeAdjustment(signals, workMode) ==
    IF signals.workMode = "" THEN 0
    ELSE IF workMode # ""
         THEN IF workModeMatchesPreference(signals.workMode, workMode) THEN 12
              ELSE IF signals.workMode = "remote" THEN -24 ELSE -18
    ELSE IF signals.workMode = "remote" THEN -14
    ELSE 0

locationAdjustment(signals, jobLocation, workMode) ==
    LET normalizedLocation == trim(jobLocation)
        locationMatches == \E i \in 1..Len(signals.locations) :
                               includes(normalizedLocation, signals.locations[i])
        remoteFriendly == \/ includes(normalizedLocation, <<"remote">>)
                          \/ includes(normalizedLocation, <<"anywhere">>)
                          \/ workMode \in {"remote", "hybrid"}
    IN  IF Len(signals.locations) = 0 THEN 0
        ELSE IF locationMatches THEN 6
        ELSE IF normalizedLocation = <<>> THEN -2
        ELSE IF remoteFriendly THEN (IF signals.workMode = "remote" THEN -2 ELSE -4)
        ELSE (IF signals.workMode = "remote" THEN -14 ELSE -10)

companyAdjustment(signals, jobCompany) ==
    IF Len(signals.targetCompanies) > 0 /\ jobCompany # <<>>
       /\ \E i \in 1..Len(signals.targetCompanies) : includes(jobCompany, signals.targetCompanies[i])
    THEN 15 ELSE 0

industryMatch(signals, jobText) ==
    /\ Len(signals.industries) > 0 /\ jobText # <<>>
    /\ \E i \in 1..Len(signals.industries) : includes(jobText, signals.industries[i])

industryAdjustment(signals, jobText) ==
    IF Len(signals.industries) > 0 /\ jobText # <<>>
    THEN (IF industryMatch(signals, jobText) THEN 8 ELSE -6)
    ELSE 0

interestAdjustment(signals, jobText) ==
    IF /\ ~industryMatch(signals, jobText)
       /\ Len(signals.interestKeywords) > 0 /\ jobText # <<>>
       /\ \E i \in 1..Len(signals.interestKeywords) : includes(jobText, signals.interestKeywords[i])
    THEN 5 ELSE 0

\* evaluateJobAgainstPreferences: `exclude` is initialised false and never assigned
evaluateJobAgainstPreferences(normalizedJob, rawJob, signals) ==
    LET jobCompany == toLowerCase(IF normalizedJob.company # <<>> THEN normalizedJob.company
                                  ELSE rawJob.company)
        jobLocation == toLowerCase(IF normalizedJob.location # <<>> THEN normalizedJob.location
                                   ELSE rawJob.location)
        jobText == jobTextOf(normalizedJob, rawJob)
        workMode == inferWorkMode(normalizedJob, rawJob)
    IN  [adjustment |-> workModeAdjustment(signals, workMode)
                        + locationAdjustment(signals, jobLocation, workMode)
                        + companyAdjustment(signals, jobCompany)
                        + industryAdjustment(signals, jobText)
                        + interestAdjustment(signals, jobText),
         exclude |-> FALSE]

experienceMatches(jobLevel, profileExp2) ==
    \/ jobLevel = "intern" /\ profileExp2 < 4
    \/ jobLevel = "junior" /\ profileExp2 >= 1 /\ profileExp2 < 6
    \/ jobLevel = "mid" /\ profileExp2 >= 4 /\ profileExp2 < 10
    \/ jobLevel = "senior" /\ profileExp2 >= 8
    \/ jobLevel = "lead" /\ profileExp2 >= 12

locationMatchesProfile(profile, job) ==
    LET jobLocation == toLowerCase(job.location)
        preferredLocations == lowerAll(profile.preferred_locations)
    IN  \/ /\ includes(jobLocation, <<"remote">>)
           /\ \/ <<"remote">> \in Range(preferredLocations)
              \/ Len(preferredLocations) = 0
        \/ \E i \in 1..Len(preferredLocations) :
              \/ includes(jobLocation, preferredLocations[i])
              \/ includes(preferredLocations[i], split(jobLocation)[1])

workModePoints(profile, job) ==
    LET workMode == job.normalized.work_mode
        preferredMode == profile.inferred_preferences.work_mode_preference
    IN  IF workMode # "" /\ preferredMode # "" /\ workMode = preferredMode THEN 15
        ELSE IF preferredMode = "" THEN 10
        ELSE 0

\* the common denominator of the two skill fractions
scoreDenominator(job) ==
    Max2(Len(job.normalized.required_skills), 1) * Max2(Len(job.normalized.nice_to_have), 1)

\* `score` before Math.round, times scoreDenominator(job)
scoreNumerator(profile, job, rawJob, preferenceSignals) ==
    LET profileSkills == lowerAll(profile.skills)
        requiredSkills == lowerAll(job.normalized.required_skills)
        niceToHave == lowerAll(job.normalized.nice_to_have)
        niceLen == Max2(Len(niceToHave), 1)
        den == scoreDenominator(job)
        whole == 50
                 + (IF experienceMatches(job.normalized.level, profile.experience_years2)
                    THEN 20 ELSE 0)
                 + (IF locationMatchesProfile(profile, job) THEN 15 ELSE 0)
                 + workModePoints(profile, job)
                 + evaluateJobAgainstPreferences(job, rawJob, preferenceSignals).adjustment
    IN  whole * den
        + (IF Len(requiredSkills) > 0
           THEN matchedSkills(requiredSkills, profileSkills) * 30 * niceLen ELSE 0)
        + matchedSkills(niceToHave, profileSkills) * 10 * Max2(Len(requiredSkills), 1)

\* Math.round of num / den
round(num, den) == (2 * num + den) \div (2 * den)

clampScoreOff(x) == x
\* Math.min(100, Math.max(0, x))
clampScore(x) == Min2(100, Max2(0, x))

\* computeBaseScore; without includeDetails the plain number is the score field
computeBaseScore(profile, job, rawJob, preferenceSignals) ==
    IF evaluateJobAgainstPreferences(job, rawJob, preferenceSignals).exclude
    THEN [score |-> 0, excluded |-> TRUE]
    ELSE [score |-> clampScore(round(scoreNumerator(profile, job, rawJob, preferenceSignals),
                                     scoreDenominator(job))),
          excluded |-> FALSE]

\* the profiles and normalized jobs that are scored
ScoreProfiles ==
    { [skills |-> sk, experience_years2 |-> ex, preferred_locations |-> pl,
       inferred_preferences |-> [work_mode_preference |-> wp],
       preference_work_mode |-> "", preference_work_modes |-> pw,
       target_companies |-> pi.companies, preferred_industries |-> pi.industries,
       interests |-> pi.interests] :
      sk \in { <<>>, << <<"Python">>, <<"java", "script">>, <<"react">> >> },
      ex \in { 1, 12 },
      pl \in { <<>>, << <<"remote">> >>, << <<" ", "Berlin">> >> },
      wp \in { "", "remote", "onsite" },
      pw \in { <<>>, <<"Hybrid">> },
      pi \in { [companies |-> <<>>, industries |-> <<>>, interests |-> <<>>],
               [companies |-> << <<"Acme">> >>, industries |-> << <<"Fintech">> >>,
                interests |-> << <<"retail">> >>] } }

ScoreJobs ==
    { [title |-> <<"engineer">>, company |-> co, location |-> lo,
       normalized |-> [required_skills |-> rs, nice_to_have |-> nh, level |-> lv,
                       work_mode |-> wm, summary |-> su]] :
      co \in { <<>>, <<"Acme", " ", "Corp">> },
      lo \in { <<>>, <<"Remote">>, <<"Berlin", ",", " ", "DE">> },
      rs \in { <<>>, << <<"python">>, <<"sql">> >>,
               << <<"java">>, <<"React">>, <<"sql">>, <<"python">> >> },
      nh \in { <<>>, << <<"react">>, <<"docker">>, <<"go">> >> },
      lv \in { "", "junior", "lead" },
      wm \in { "", "Remote", "onsite" },
      su \in { <<"fintech", " ", "payments">>, <<"wfh", " ", "retail">> } }

\* the raw job a normalized job was made from ({...rawJob, normalized})
rawJobOf(job) == [title |-> job.title, company |-> job.company, location |-> job.location]

\* what the LLM may answer as `score`
ScoreReplies ==
    LLMReplies \cup
    { [numeric |-> TRUE, score |-> sc, summary |-> "ai", suggestions |-> TRUE] : sc \in {-20, 0, 73} }

NoScore == [pc |-> "idle", profile |-> <<>>, job |-> <<>>,
            base |-> [score |-> 0, excluded |-> FALSE], entry |-> NullMatch]

InitScore ==
    /\ IdleMatch
    /\ status = Idle
    /\ \E profile \in ScoreProfiles : score = [NoScore EXCEPT !.profile = profile]
    /\ dedup = Idle
    /\ agg = Idle
    /\ jsearch = Idle
    /\ search = Idle
    /\ norm = Idle
    /\ derived = Idle

\* searchJobs scores a job for the loaded profile: jobController.js lines 455-483
ComputeBaseScore(job) ==
    /\ score.pc = "idle"
    /\ score' = [score EXCEPT !.pc = "scored", !.job = job,
                   !.base = computeBaseScore(score.profile, job, rawJobOf(job),
                                             buildPreferenceSignals(score.profile))]
    /\ UNCHANGED <<matchVars, status, dedup, agg, jsearch, search, norm, derived>>

\* getMatchOrSchedule stores the placeholder for a job that was not excluded
CachePlaceholder ==
    /\ score.pc = "scored" /\ ~score.base.excluded
    /\ score' = [score EXCEPT !.pc = "pending", !.entry = buildPendingMatch(score.base.score)]
    /\ UNCHANGED <<matchVars, status, dedup, agg, jsearch, search, norm, derived>>

\* explainMatch computes the base score again, without options: line 55
ExplainComputesBase ==
    /\ score.pc = "pending"
    /\ score' = [NoScore EXCEPT !.pc = "explaining",
                   !.base = computeBaseScore(score.profile, score.job, NoRawJob,
                                             buildPreferenceSignals(score.profile)),
                   !.entry = score.entry]
    /\ UNCHANGED <<matchVars, status, dedup, agg, jsearch, search, norm, derived>>

\* explainMatch without an LLM, or with an LLM call that fails; the result is cached
CacheRuleBasedMatch ==
    /\ score.pc = "explaining"
    /\ score' = [score EXCEPT !.pc = "ready",
                   !.entry = FinalMatch(RuleBasedMatch(score.base.score))]
    /\ UNCHANGED <<matchVars, status, dedup, agg, jsearch, search, norm, derived>>

\* explainMatch with an answer of the LLM; the result is cached
CacheAiMatch(reply) ==
    /\ score.pc = "explaining"
    /\ score' = [score EXCEPT !.pc = "ready",
                   !.entry = FinalMatch(AiMatch(reply, score.base.score))]
    /\ UNCHANGED <<matchVars, status, dedup, agg, jsearch, search, norm, derived>>

NextScore ==
    \/ \E job \in ScoreJobs : ComputeBaseScore(job)
    \/ CachePlaceholder
    \/ ExplainComputesBase
    \/ CacheRuleBasedMatch
    \/ \E reply \in ScoreReplies : CacheAiMatch(reply)

SpecScore == InitScore /\ [][NextScore]_vars

\* C7: computeBaseScore returns an integer score in [0,100], or score 0 with
\* excluded = true, and the score of every match entry written to the cache
\* (placeholder or ready) is in [0,100].
C7_ScoreInRange ==
    /\ score.pc # "idle" =>
          \/ score.base.score \in 0..100 /\ ~score.base.excluded
          \/ score.base.score = 0 /\ score.base.excluded
    /\ score.pc \in {"pending", "explaining", "ready"} =>
          score.entry.score >= 0 /\ score.entry.score <= 100

\* C7 witness: a job whose unrounded score is above 100 was scored 100 and
\* its placeholder is cached with that score.
C7_Witness ==
    /\ score.pc = "pending"
    /\ scoreNumerator(score.profile, score.job, rawJobOf(score.job),
                      buildPreferenceSignals(score.profile)) > 100 * scoreDenominator(score.job)
    /\ score.base.score = 100
    /\ score.entry.score = 100 /\ score.entry.status = "pending"

\* C23: with an LLM configured, explainMatch returns the numeric score s of
\* the LLM clamped to [0,100], for every s (0, negative and above 100
\* included); when the LLM call fails it returns the deterministic
\* explanation, whose score is the base score.
C23_ExplainMatchClampsLLMScore ==
    [][ /\ \A reply \in ScoreReplies :
              (CacheAiMatch(reply) /\ reply.numeric) =>
                  score'.entry.score = Min2(100, Max2(0, reply.score))
        /\ CacheRuleBasedMatch =>
              /\ score'.entry.score = score.base.score
              /\ score'.entry.summary = generateBasicSummary(score.base.score) ]_vars

(***************************************************************************)
(* The remote scenario: a search with location 'Remote' for a profile that *)
(* prefers remote work.  A job of the source is put through the location / *)
(* remote filter of the aggregator and then through the preference         *)
(* evaluation.  matchesAny is what jobMatchesAnyLocation finds.            *)
(***************************************************************************)
\* isRemoteJob: part_007 lines 127-130
isRemoteJob(job) ==
    \/ job.remote
    \/ includes(toLowerCase(job.location), <<"remote">>)
    \/ includes(toLowerCase(job.location), <<"anywhere">>)

\* the filter callback of lines 221-240
locationFilter(c, isRemote, matchesAny) ==
    IF c.remoteOnly /\ ~isRemote THEN FALSE
    ELSE IF ~c.hasLocation THEN (IF c.remoteOnly THEN isRemote ELSE TRUE)
    ELSE IF matchesAny THEN TRUE
    ELSE c.allowRemote /\ isRemote

\* deriveAggregatorCriteria on preference_work_modes, with the location of
\* the request as a location candidate
remoteCriteria(profile) ==
    LET workModes == uniqueSeq([i \in 1..Len(profile.preference_work_modes) |->
                                   LowerOf(profile.preference_work_modes[i])], {})
    IN  [remoteOnly |-> workModes = <<"remote">>,
         allowRemote |-> "remote" \in Range(workModes),
         hasLocation |-> TRUE]

RemoteProfiles == { [p EXCEPT !.preference_work_modes = <<"remote">>] : p \in ScoreProfiles }

\* what the source client and the normalization may make of a posting
SourceJobs ==
    { [title |-> <<"engineer">>, company |-> <<>>, location |-> lo, remote |-> rm,
       description |-> de,
       normalized |-> [required_skills |-> <<>>, nice_to_have |-> <<>>, level |-> "",
                       work_mode |-> wm, summary |-> su]] :
      lo \in { <<"Remote">>, <<"Berlin", ",", " ", "DE">> },
      rm \in BOOLEAN,
      de \in { <<>>, <<"wfh">>, <<"hybrid">>, <<"on-site", " ", "team">> },
      wm \in { "", "Remote", "hybrid", "onsite" },
      su \in { <<>>, <<"fintech", " ", "payments">> } }

\* the raw job: the job without its normalized sub-object
sourceJobOf(job) ==
    [title |-> job.title, company |-> job.company, location |-> job.location,
     description |-> job.description]

NoEvaluation == [pc |-> "idle", profile |-> <<>>, job |-> <<>>, passes |-> FALSE,
                 workMode |-> 0, adjustment |-> 0]

InitRemote ==
    /\ IdleMatch
    /\ status = Idle
    /\ \E profile \in RemoteProfiles : score = [NoEvaluation EXCEPT !.profile = profile]
    /\ dedup = Idle
    /\ agg = Idle
    /\ jsearch = Idle
    /\ search = Idle
    /\ norm = Idle
    /\ derived = Idle

\* the aggregator filters a job of the source
FilterJob(job, matchesAny) ==
    /\ score.pc = "idle"
    /\ score' = [score EXCEPT !.pc = "filtered", !.job = job,
                   !.passes = locationFilter(remoteCriteria(score.profile), isRemoteJob(job),
                                             matchesAny)]
    /\ UNCHANGED <<matchVars, status, dedup, agg, jsearch, search, norm, derived>>

\* computeBaseScore evaluates the job against the preferences; workMode is
\* the part of the adjustment that the work mode contributes
EvaluateJob ==
    /\ score.pc = "filtered" /\ score.passes
    /\ LET signals == buildPreferenceSignals(score.profile)
           rawJob == sourceJobOf(score.job)
       IN  score' = [score EXCEPT
               !.pc = "evaluated",
               !.workMode = workModeAdjustment(signals, inferWorkMode(score.job, rawJob)),
               !.adjustment = evaluateJobAgainstPreferences(score.job, rawJob, signals).adjustment]
    /\ UNCHANGED <<matchVars, status, dedup, agg, jsearch, search, norm, derived>>

NextRemote ==
    \/ \E job \in SourceJobs, matchesAny \in BOOLEAN : FilterJob(job, matchesAny)
    \/ EvaluateJob

SpecRemote == InitRemote /\ [][NextRemote]_vars

\* C24 as stated: in the remote scenario every job with remote:true passes
\* the location / remote filter and gets the +12 work-mode adjustment,
\* whatever its location text, description and normalized work_mode are.
C24_RemoteFlagGetsBonus ==
    (score.pc # "idle" /\ score.job.remote) =>
        /\ score.passes
        /\ score.pc = "evaluated" => score.workMode = 12

\* the job names remote or hybrid work: in its normalized work_mode, or, when
\* it has none, by a keyword in its summary, description or title
NamesRemoteOrHybrid(job) ==
    IF job.normalized.work_mode # ""
    THEN LowerOf(job.normalized.work_mode) \in {"remote", "hybrid"}
    ELSE \E k \in REMOTE_KEYWORDS \cup HYBRID_KEYWORDS :
            \/ includes(toLowerCase(job.normalized.summary), k)
            \/ includes(toLowerCase(job.description), k)
            \/ includes(toLowerCase(job.title), k)

\* C24, amended: every job with remote:true passes the filter; it gets +12
\* exactly when it names remote or hybrid work, and -24 (another work mode)
\* or -14 (no work mode inferred) when it does not.
C24_RemoteFlagPassesBonusNeedsMode ==
    (score.pc # "idle" /\ score.job.remote) =>
        /\ score.passes
        /\ score.pc = "evaluated" =>
              /\ score.workMode = 12 <=> NamesRemoteOrHybrid(score.job)
              /\ score.workMode \in {12, 0 - 24, 0 - 14}

\* C24 witness: a job in Berlin with remote:true, no normalized work_mode
\* and 'wfh' in its description passed the filter without matching a
\* location and was given +12
C24_Witness ==
    /\ score.pc = "evaluated" /\ score.job.remote /\ score.passes
    /\ score.job.location = <<"Berlin", ",", " ", "DE">>
    /\ score.job.normalized.work_mode = "" /\ score.job.description = <<"wfh">>
    /\ score.workMode = 12

(***************************************************************************)
(* Job identity: uniqueById (aggregator) and getJobCacheKey (controller)   *)
(*                                                                         *)
(* A raw job is a record of strings, "" standing for a missing field; a    *)
(* null entry of a job list is NullJob.                                    *)
(***************************************************************************)

\* the longest job list that is fetched
MaxListLen == 2

BlankJob == [null |-> FALSE, id |-> "", job_id |-> "", externalId |-> "", url |-> "",
             apply_link |-> "", title |-> "", company |-> "", location |-> "", postedAt |-> ""]

NullJob == [BlankJob EXCEPT !.null = TRUE]

\* a || b on strings
orElse(a, b) == IF a # "" THEN a ELSE b

\* the key uniqueById gives a job when `result` holds resultLength jobs: part_007 line 18
aggregatorKey(job, resultLength) ==
    orElse(job.id,
           orElse(job.title, "unknown") \o "-" \o orElse(job.company, "unknown") \o "-"
               \o orElse(job.location, "na") \o "-" \o ToString(resultLength))

\* seen.has(key)
seenHasNever(seen, key) == FALSE
seenHas(seen, key) == key \in seen

RECURSIVE uniqueByIdFrom(_, _, _, _)
\* the loop of uniqueById over the rest of the jobs; keys are the keys of the kept jobs
uniqueByIdFrom(jobs, seen, result, keys) ==
    IF jobs = <<>> THEN [result |-> result, keys |-> keys]
    ELSE IF Head(jobs).null THEN uniqueByIdFrom(Tail(jobs), seen, result, keys)
    ELSE LET key == aggregatorKey(Head(jobs), Len(result))
         IN  IF seenHas(seen, key) THEN uniqueByIdFrom(Tail(jobs), seen, result, keys)
             ELSE uniqueByIdFrom(Tail(jobs), seen \cup {key},
                                 Append(result, Head(jobs)), Append(keys, key))

uniqueById(jobs) == uniqueByIdFrom(jobs, {}, <<>>, <<>>)

\* getJobCacheKey: jobController.js lines 127-137; "" is null
getJobCacheKey(job) ==
    IF job.null THEN ""
    ELSE orElse(job.id, orElse(job.job_id, orElse(job.externalId, orElse(job.url,
         orElse(job.apply_link,
                orElse(job.title, "unknown") \o "|" \o orElse(job.company, "unknown") \o "|"
                    \o orElse(job.location, "unknown") \o "|" \o job.postedAt)))))

getNormalizedJobRedisKey(cacheKey) == "job:normalized:" \o cacheKey

\* the jobs that the lists are made of
DedupJobs ==
    { [BlankJob EXCEPT !.id = "j1", !.title = "A", !.company = "B", !.location = "C"],
      [BlankJob EXCEPT !.id = "j1", !.title = "A2", !.company = "B", !.location = "C"],
      [BlankJob EXCEPT !.id = "j2", !.job_id = "x2", !.title = "D"],
      [BlankJob EXCEPT !.job_id = "x9", !.title = "A", !.company = "B", !.location = "C",
                       !.postedAt = "t1"],
      BlankJob,
      NullJob }

JobLists == UNION { [1..n -> DedupJobs] : n \in 0..MaxListLen }

NoDedup == [pc |-> "idle", first |-> <<>>, second |-> <<>>, result |-> <<>>, keys |-> <<>>,
            filtered |-> <<>>, filteredKeys |-> <<>>, cacheKeys |-> <<>>]

InitDedup ==
    /\ IdleMatch
    /\ status = Idle
    /\ score = Idle
    /\ \E first \in JobLists : dedup = [NoDedup EXCEPT !.first = first]
    /\ agg = Idle
    /\ jsearch = Idle
    /\ search = Idle
    /\ norm = Idle
    /\ derived = Idle

\* aggregateJobs merges a further fetch: uniqueById([...combined, ...more])
UniqueById(second) ==
    /\ dedup.pc = "idle"
    /\ LET u == uniqueById(dedup.first \o second)
       IN  dedup' = [dedup EXCEPT !.pc = "deduped", !.second = second,
                                  !.result = u.result, !.keys = u.keys]
    /\ UNCHANGED <<matchVars, status, score, agg, jsearch, search, norm, derived>>

\* the jobs of xs at the positions in keep, in order
RECURSIVE filterAt(_, _, _)
filterAt(xs, keep, i) ==
    IF i > Len(xs) THEN <<>>
    ELSE IF i \in keep THEN <<xs[i]>> \o filterAt(xs, keep, i + 1)
    ELSE filterAt(xs, keep, i + 1)

\* aggregateJobs filters the merged jobs and deduplicates once more (uniqueById(filtered));
\* the controller then derives the cache key of every job that is left
FilterAndKey(keep) ==
    /\ dedup.pc = "deduped"
    /\ keep \subseteq 1..Len(dedup.result)
    /\ LET u == uniqueById(filterAt(dedup.result, keep, 1))
       IN  dedup' = [dedup EXCEPT !.pc = "keyed",
                        !.filtered = u.result, !.filteredKeys = u.keys,
                        !.cacheKeys = [n \in 1..Len(u.result) |->
                            [normalization |-> getNormalizedJobRedisKey(getJobCacheKey(u.result[n])),
                             match |-> getMatchRedisKey("p1", getJobCacheKey(u.result[n]))]]]
    /\ UNCHANGED <<matchVars, status, score, agg, jsearch, search, norm, derived>>

NextDedup ==
    \/ \E second \in JobLists : UniqueById(second)
    \/ \E keep \in SUBSET (1..(2 * MaxListLen)) : FilterAndKey(keep)

SpecDedup == InitDedup /\ [][NextDedup]_vars

JobIdentity(job, ordinal) ==
    IF job.id # "" THEN job.id
    ELSE (IF job.title # "" THEN job.title ELSE "unknown") \o "-"
         \o (IF job.company # "" THEN job.company ELSE "unknown") \o "-"
         \o (IF job.location # "" THEN job.location ELSE "na") \o "-" \o ToString(ordinal)

\* C9: uniqueById applied to the concatenation of two job lists keeps, in
\* their input order, exactly the non-null jobs whose identity was not seen
\* before: every identity occurs once, the kept job is the first one with
\* that identity, and null entries are dropped.
C9_DedupFirstSeen ==
    dedup.pc # "idle" =>
        LET input == dedup.first \o dedup.second
            out == dedup.result
        IN  /\ \E S \in SUBSET (1..Len(input)) :
                  LET ord(i) == Cardinality({ j \in S : j < i })
                      ident(i) == JobIdentity(input[i], ord(i))
                  IN  /\ Len(out) = Cardinality(S)
                      /\ \A i \in S : /\ ~input[i].null
                                      /\ out[ord(i) + 1] = input[i]
                                      /\ \A j \in S : j < i => ident(j) # ident(i)
                      /\ \A i \in (1..Len(input)) \ S :
                            input[i].null \/ \E j \in S : j < i /\ ident(j) = ident(i)
            /\ \A i \in 1..Len(input) :
                  (~input[i].null /\ input[i].id # "") =>
                      /\ Cardinality({ n \in 1..Len(out) : out[n].id = input[i].id }) = 1
                      /\ \E n \in 1..Len(out), f \in 1..i :
                            /\ out[n] = input[f] /\ input[f].id = input[i].id
                            /\ \A g \in 1..(f - 1) : input[g].null \/ input[g].id # input[i].id
            /\ \A n \in 1..Len(out) : ~out[n].null

\* C9 witness: the two lists share the identity j1 with different content and
\* the second holds a null entry; the result keeps the job of the first list,
\* after the job that came before it.
C9_Witness ==
    /\ dedup.pc = "deduped"
    /\ Len(dedup.first) = 2 /\ Len(dedup.second) = 2
    /\ dedup.first[1].id = "j2"
    /\ dedup.first[2].id = "j1" /\ dedup.first[2].title = "A"
    /\ dedup.second[1].id = "j1" /\ dedup.second[1].title = "A2"
    /\ dedup.second[2].null
    /\ dedup.result = dedup.first

(***************************************************************************)
(* The aggregator: aggregateJobs                                           *)
(*                                                                         *)
(* One call of aggregateJobs is followed from await to await: agg.pc names *)
(* the call that is awaited and agg.calls lists the searchJSearch calls    *)
(* issued so far.  The jobs of the source carry ids; of a job only its id, *)
(* whether it matches a location candidate and whether it is remote        *)
(* matter here.  Jobs are posted in the order of their ids.                *)
(***************************************************************************)

AggJobIds == {1, 2, 3}
MatchingJobs == {1}
RemoteJobs == {2}

AggLimits == {1, 3, 50}

\* the criteria of a call; expanded is the number of locations that
\* expandLocationPatterns gives for the first location candidate, variations
\* the number of usable term variations of the query
AggCriteria ==
    { [datePosted |-> dp, limit |-> li, hasLocation |-> hl, remoteOnly |-> ro,
       allowRemote |-> ar, query |-> qu, expanded |-> ex, variations |-> va] :
      dp \in {"", "month"}, li \in AggLimits, hl \in BOOLEAN, ro \in BOOLEAN,
      ar \in BOOLEAN, qu \in BOOLEAN, ex \in {0, 4}, va \in {0, 3} }

\* what Gemini may suggest: nothing usable, or this many roles
RoleSuggestions == {0, 1, 5}

\* repeated: the number of entries that the similar-role retries appended to
\* `filtered` although a job of the same id was in it already
NoAgg == [pc |-> "base", criteria |-> <<>>, gemini |-> FALSE, cooling |-> FALSE,
          calls |-> <<"base">>, baseResults |-> {}, combined |-> {}, filtered |-> {},
          left |-> 0, allEmpty |-> TRUE, results |-> {}, repeated |-> 0]

InitAgg ==
    /\ IdleMatch
    /\ status = Idle
    /\ score = Idle
    /\ dedup = Idle
    /\ jsearch = Idle
    /\ search = Idle
    /\ norm = Idle
    /\ derived = Idle
    /\ \E c \in AggCriteria, g \in BOOLEAN, cd \in BOOLEAN :
          agg = [NoAgg EXCEPT !.criteria = c, !.gemini = g, !.cooling = cd]

\* what a searchJSearch call may return: nothing while cooling down, else
\* any jobs, or nothing together with a rate limit
SourceReplies(a) ==
    IF a.cooling THEN { [jobs |-> {}, rateLimited |-> FALSE] }
    ELSE { [jobs |-> js, rateLimited |-> FALSE] : js \in SUBSET AggJobIds }
         \cup { [jobs |-> {}, rateLimited |-> TRUE] }

\* the effect of a reply on the cooldown and on the record of empty replies
received(a, reply) ==
    [a EXCEPT !.cooling = a.cooling \/ reply.rateLimited,
              !.allEmpty = a.allEmpty /\ reply.jobs = {}]

\* a further searchJSearch call is issued and awaited
issue(a, kind) == [a EXCEPT !.pc = kind, !.calls = Append(a.calls, kind)]

\* the location / remote filter of lines 213-233 and 338-358
passesFilter(c, job) ==
    IF c.remoteOnly /\ job \notin RemoteJobs THEN FALSE
    ELSE IF ~c.hasLocation THEN (IF c.remoteOnly THEN job \in RemoteJobs ELSE TRUE)
    ELSE IF job \in MatchingJobs THEN TRUE
    ELSE c.allowRemote /\ job \in RemoteJobs

filterJobs(c, jobs) ==
    IF c.hasLocation \/ c.remoteOnly THEN { j \in jobs : passesFilter(c, j) } ELSE jobs

\* the latest-posted n jobs: sort by postedAt descending, slice(0, n)
latest(jobs, n) == { j \in jobs : Cardinality({ k \in jobs : k > j }) < n }

\* expanded.slice(0, 3) and similarRoles.slice(0, 2), as counts
sliceAll(n, k) == n
sliceCount(n, k) == Min2(n, k)

\* sort, slice to the limit, then await the ratings
finish(a) ==
    [a EXCEPT !.pc = "rating", !.left = 0, !.results = latest(a.filtered, a.criteria.limit)]

\* the loop over the similar roles: lines 327-365
similarLoop(a) ==
    IF a.left > 0 /\ Cardinality(a.filtered) < a.criteria.limit
    THEN issue(a, "similar") ELSE finish(a)

\* lines 272-365: the similar-role fallback
afterAlternates(a) ==
    IF Cardinality(a.filtered) < 2 /\ a.criteria.query /\ a.baseResults # {} /\ ~a.cooling
    THEN IF a.gemini THEN [a EXCEPT !.pc = "gemini"]
         ELSE similarLoop([a EXCEPT !.left = sliceCount(a.criteria.variations, 2)])
    ELSE finish(a)

\* the loop over the alternate locations: lines 254-271
alternateLoop(a) ==
    IF a.left > 0 /\ Cardinality(a.filtered) < a.criteria.limit
    THEN issue(a, "alternate") ELSE afterAlternates([a EXCEPT !.left = 0])

\* lines 192-253: filter, then the alternate-location retries
afterPages(a) ==
    LET f == [a EXCEPT !.filtered = filterJobs(a.criteria, a.combined)]
    IN  IF /\ a.criteria.hasLocation \/ a.criteria.remoteOnly
           /\ f.filtered = {} /\ a.baseResults # {} /\ ~a.cooling
        THEN alternateLoop([f EXCEPT !.left =
                 sliceCount(IF a.criteria.hasLocation THEN a.criteria.expanded ELSE 0, 3)])
        ELSE afterAlternates(f)

\* line 181
afterRelaxedWhileCooling(a) ==
    IF Cardinality(a.combined) < Min2(a.criteria.limit, 20)
    THEN issue(a, "page2") ELSE afterPages(a)
afterRelaxed(a) ==
    IF Cardinality(a.combined) < Min2(a.criteria.limit, 20) /\ ~a.cooling
    THEN issue(a, "page2") ELSE afterPages(a)

\* line 166
afterBase(a) ==
    IF Cardinality(a.combined) < Min2(a.criteria.limit, 10) /\ a.criteria.datePosted # "month"
    THEN issue(a, "relaxed") ELSE afterRelaxed(a)

OutsideAgg == <<matchVars, status, score, dedup, jsearch, search, norm, derived>>

BaseReturns(reply) ==
    /\ agg.pc = "base" /\ reply \in SourceReplies(agg)
    /\ agg' = afterBase([received(agg, reply) EXCEPT !.baseResults = reply.jobs,
                                                    !.combined = reply.jobs])
    /\ UNCHANGED OutsideAgg

RelaxedReturns(reply) ==
    /\ agg.pc = "relaxed" /\ reply \in SourceReplies(agg)
    /\ agg' = afterRelaxed([received(agg, reply) EXCEPT !.combined = agg.combined \cup reply.jobs])
    /\ UNCHANGED OutsideAgg

Page2Returns(reply) ==
    /\ agg.pc = "page2" /\ reply \in SourceReplies(agg)
    /\ LET a == [received(agg, reply) EXCEPT !.combined = agg.combined \cup reply.jobs]
       IN  agg' = IF Cardinality(a.combined) < Min2(a.criteria.limit, 30)
                  THEN issue(a, "page3") ELSE afterPages(a)
    /\ UNCHANGED OutsideAgg

Page3Returns(reply) ==
    /\ agg.pc = "page3" /\ reply \in SourceReplies(agg)
    /\ agg' = afterPages([received(agg, reply) EXCEPT !.combined = agg.combined \cup reply.jobs])
    /\ UNCHANGED OutsideAgg

\* the jobs of an alternate location are added without the filter
AlternateReturns(reply) ==
    /\ agg.pc = "alternate" /\ reply \in SourceReplies(agg)
    /\ agg' = alternateLoop([received(agg, reply) EXCEPT
                                !.filtered = agg.filtered \cup reply.jobs,
                                !.left = agg.left - 1])
    /\ UNCHANGED OutsideAgg

\* Gemini answers (n = 0: it failed or suggested nothing, the term variations are used)
RolesSuggested(n) ==
    /\ agg.pc = "gemini"
    /\ agg' = similarLoop([agg EXCEPT !.left =
                  sliceCount(IF n = 0 THEN agg.criteria.variations ELSE n, 2)])
    /\ UNCHANGED OutsideAgg

\* lines 363-366: fallbackFiltered.filter(j => !existingIds.has(j.id))
newJobsUnchecked(existing, fetched) == fetched
newJobs(existing, fetched) == fetched \ existing

SimilarReturns(reply) ==
    /\ agg.pc = "similar" /\ reply \in SourceReplies(agg)
    /\ LET fallbackFiltered == { j \in reply.jobs : passesFilter(agg.criteria, j) }
           added == newJobs(agg.filtered, fallbackFiltered)
       IN  agg' = similarLoop([received(agg, reply) EXCEPT
                      !.filtered = agg.filtered \cup added,
                      !.repeated = agg.repeated + Cardinality(added \cap agg.filtered),
                      !.left = agg.left - 1])
    /\ UNCHANGED OutsideAgg

\* Promise.all over attachRating settles; a rating lookup can reject only if
\* there is a job to look up
RatingsSettle(ok) ==
    /\ agg.pc = "rating"
    /\ ok \/ agg.results # {}
    /\ agg' = [agg EXCEPT !.pc = IF ok THEN "done" ELSE "threw",
                          !.results = IF ok THEN agg.results ELSE {}]
    /\ UNCHANGED OutsideAgg

\* RATE_LIMIT_COOLDOWN_MS have passed since the last rate limit
CooldownEnds ==
    /\ agg.pc \notin {"done", "threw"} /\ agg.cooling
    /\ agg' = [agg EXCEPT !.cooling = FALSE]
    /\ UNCHANGED OutsideAgg

AggReplies == [jobs : SUBSET AggJobIds, rateLimited : BOOLEAN]

AggStep ==
    \/ \E reply \in AggReplies : BaseReturns(reply)
    \/ \E reply \in AggReplies : RelaxedReturns(reply)
    \/ \E reply \in AggReplies : Page2Returns(reply)
    \/ \E reply \in AggReplies : Page3Returns(reply)
    \/ \E reply \in AggReplies : AlternateReturns(reply)
    \/ \E n \in RoleSuggestions : RolesSuggested(n)
    \/ \E reply \in AggReplies : SimilarReturns(reply)
    \/ \E ok \in BOOLEAN : RatingsSettle(ok)

NextAgg == AggStep \/ CooldownEnds

SpecAgg == InitAgg /\ [][NextAgg]_vars

\* every awaited call settles
SpecAggFair == SpecAgg /\ WF_vars(AggStep)

\* the number of searchJSearch calls of one kind issued so far
CallsOf(kind) == Cardinality({ i \in 1..Len(agg.calls) : agg.calls[i] = kind })

\* at most 9 calls: 1 base, 1 relaxed window, 2 extra pages, 3 alternate
\* locations, 2 similar roles
AtMostNineCalls ==
    /\ Len(agg.calls) <= 9
    /\ CallsOf("base") = 1 /\ CallsOf("relaxed") <= 1
    /\ CallsOf("page2") <= 1 /\ CallsOf("page3") <= 1
    /\ CallsOf("alternate") <= 3 /\ CallsOf("similar") <= 2

AggregateEnded == agg.pc \in {"done", "threw"}

C12_AggregateNeverRaises == agg.pc # "threw"

\* the searchJSearch calls of the primary phase, in the order they were issued
PrimaryKinds == {"base", "relaxed", "page2", "page3"}
PrimaryCalls == SelectSeq(agg.calls, LAMBDA k : k \in PrimaryKinds)

\* a step that issues a searchJSearch call of this kind
Issues(kind) ==
    /\ Len(agg'.calls) = Len(agg.calls) + 1
    /\ agg'.calls[Len(agg'.calls)] = kind

DecidesSimilar ==
    /\ agg.pc \in PrimaryKinds \cup {"alternate"}
    /\ agg'.pc \notin PrimaryKinds \cup {"alternate"}

\* fewer than 2 jobs remain after the filter, a role query was given and the
\* source is not cooling down
FewResults == Cardinality(agg'.filtered) < 2 /\ agg.criteria.query /\ ~agg'.cooling

\* C20 (as claimed): whenever fewer than 2 jobs remain after the filter, a role
\* query was given and the source is not cooling down, aggregateJobs goes on
\* to the similar-role retries (at most 2), and every job they add passes the
\* filter and is no duplicate of a job already kept.
C20_AlwaysRetriesSimilarRoles ==
    [][ /\ (DecidesSimilar /\ FewResults) => agg'.pc \in {"gemini", "similar"}
        /\ CallsOf("similar")' <= 2
        /\ agg.pc = "similar" =>
              /\ agg'.filtered \ agg.filtered \subseteq
                    { j \in AggJobIds : passesFilter(agg.criteria, j) }
              /\ agg'.repeated = 0 ]_vars

\* C20 (amended): whenever fewer than 2 jobs remain after the filter and the
\* alternate-location retries, a role query was given, the base fetch returned
\* at least one job and the source is not cooling down, aggregateJobs asks for
\* similar-role variants (Gemini if configured, else term variations) and
\* retries the search with at most 2 of them, one at a time, as long as fewer
\* than `limit` jobs are kept; otherwise it makes no similar-role retry.  Every
\* job the retries add passes the filter and is no duplicate of a kept job.
C20_RetriesSimilarRoles ==
    [][ /\ DecidesSimilar =>
              IF FewResults /\ agg'.baseResults # {}
              THEN IF agg.gemini THEN agg'.pc = "gemini"
                   ELSE (agg'.pc = "similar") <=>
                            /\ agg.criteria.variations > 0
                            /\ Cardinality(agg'.filtered) < agg.criteria.limit
              ELSE agg'.pc = "rating"
        /\ Issues("similar") =>
              /\ agg.pc \in PrimaryKinds \cup {"alternate", "gemini", "similar"}
              /\ Cardinality(agg'.filtered) < agg.criteria.limit
              /\ agg.criteria.query /\ agg'.baseResults # {}
        /\ CallsOf("similar")' <= 2
        /\ agg.pc = "similar" =>
              /\ agg'.filtered \ agg.filtered \subseteq
                    { j \in AggJobIds : passesFilter(agg.criteria, j) }
              /\ agg'.repeated = 0 ]_vars

\* C20 witness: one job was left after the filter, two similar-role variants
\* were tried and a job they returned was added; it passes the filter.
C20_Witness ==
    /\ agg.pc = "done" /\ CallsOf("similar") = 2
    /\ agg.criteria.hasLocation /\ ~agg.criteria.allowRemote /\ ~agg.criteria.remoteOnly
    /\ agg.baseResults = {2}
    /\ agg.filtered = {1}
    /\ agg.results = {1}


\* C25: when remoteOnly is set in the criteria, every job in the results of
\* aggregateJobs is a remote job (isRemoteJob holds of it), on every path
\* through the aggregator, the alternate-location retries and the
\* similar-role retries included.
C25_RemoteOnlyResultsAreRemote ==
    agg.criteria.remoteOnly => agg.results \subseteq RemoteJobs

(***************************************************************************)
(* The source client: searchJSearch and its rate-limit cooldown            *)
(*                                                                         *)
(* jsearch.now is Date.now() in milliseconds; the clock advances between   *)
(* the steps of the calls.  A call is followed from its start to `await    *)
(* axios.get` (or to an early return) and from the answer to its return.   *)
(***************************************************************************)
RATE_LIMIT_COOLDOWN_MS == 60000

\* the clock advances in steps of TickMs, MaxTicks times at most
TickMs == 30000
MaxTicks == 2

MaxSearches == 3

SearchIds == 1..MaxSearches

\* Date.now() counts from 1970: the process starts long after the window that
\* the initial lastRateLimitHit = 0 would open
StartTime == 2 * RATE_LIMIT_COOLDOWN_MS

\* error.response.status of a failed request; 500 stands for every failure
\* that is neither 429 nor 403, a request without any response included
HttpStatuses == {200, 403, 429, 500}

\* after: the calls that had been answered when this call started
NoSearch == [pc |-> "idle", startedAt |-> 0, after |-> {}, sent |-> FALSE, status |-> 0,
             answeredAt |-> 0, returned |-> "none"]

\* lines 766-767 and isCoolingDown
withinCooldownNever(now, lastRateLimitHit) == FALSE
withinCooldown(now, lastRateLimitHit) == now - lastRateLimitHit < RATE_LIMIT_COOLDOWN_MS

\* line 832
startsCooldownOnlyFor429(httpStatus) == httpStatus = 429
startsCooldown(httpStatus) == httpStatus = 429 \/ httpStatus = 403

InitJSearch ==
    /\ IdleMatch
    /\ status = Idle
    /\ score = Idle
    /\ dedup = Idle
    /\ agg = Idle
    /\ search = Idle
    /\ norm = Idle
    /\ derived = Idle
    /\ \E key \in BOOLEAN :
          jsearch = [now |-> StartTime, lastRateLimitHit |-> 0, apiKey |-> key,
                     calls |-> [c \in SearchIds |-> NoSearch]]

OutsideJSearch == <<matchVars, status, score, dedup, agg, search, norm, derived>>

\* the calls whose request has been answered
Answered == { d \in SearchIds : jsearch.calls[d].pc = "done" /\ jsearch.calls[d].sent }

\* searchJSearch from its start to `await axios.get`, or to the early return
\* without an API key or during the cooldown: lines 762-789
SearchJSearch(c) ==
    /\ jsearch.calls[c].pc = "idle"
    /\ \A d \in SearchIds : d < c => jsearch.calls[d].pc # "idle"
    /\ LET call == [NoSearch EXCEPT !.startedAt = jsearch.now, !.after = Answered]
       IN  jsearch' = [jsearch EXCEPT !.calls[c] =
               IF ~jsearch.apiKey \/ withinCooldown(jsearch.now, jsearch.lastRateLimitHit)
               THEN [call EXCEPT !.pc = "done", !.returned = "empty"]
               ELSE [call EXCEPT !.pc = "waiting", !.sent = TRUE]]
    /\ UNCHANGED OutsideJSearch

\* the request settles: the jobs are mapped and returned, or the catch block
\* runs: lines 789-841
SourceAnswers(c, httpStatus, jobs) ==
    /\ jsearch.calls[c].pc = "waiting"
    /\ jsearch' = [jsearch EXCEPT
           !.calls[c] = [@ EXCEPT !.pc = "done", !.status = httpStatus,
                                  !.answeredAt = jsearch.now,
                                  !.returned = IF httpStatus = 200 /\ jobs THEN "jobs"
                                               ELSE "empty"],
           !.lastRateLimitHit = IF httpStatus # 200 /\ startsCooldown(httpStatus)
                                THEN jsearch.now ELSE @]
    /\ UNCHANGED OutsideJSearch

ClockAdvances ==
    /\ jsearch.now < StartTime + MaxTicks * TickMs
    /\ jsearch' = [jsearch EXCEPT !.now = @ + TickMs]
    /\ UNCHANGED OutsideJSearch

NextJSearch ==
    \/ \E c \in SearchIds : SearchJSearch(c)
    \/ \E c \in SearchIds, httpStatus \in HttpStatuses, jobs \in BOOLEAN :
          SourceAnswers(c, httpStatus, jobs)
    \/ ClockAdvances

SpecJSearch == InitJSearch /\ [][NextJSearch]_vars

\* call d was answered with a rate limit
RateLimited(d) == jsearch.calls[d].pc = "done" /\ jsearch.calls[d].status \in {429, 403}

\* the time of the latest rate-limit answer, 0 if there was none
LatestRateLimit ==
    LET times == { jsearch.calls[d].answeredAt : d \in { e \in SearchIds : RateLimited(e) } }
    IN  IF times = {} THEN 0 ELSE CHOOSE t \in times : \A u \in times : u <= t

\* C11: once the source has answered a request with 429 or 403 at time t, a
\* searchJSearch call that starts after that answer at a time before
\* t + 60 s sends no request and returns an empty list; and only 429 and 403
\* start a cooldown: lastRateLimitHit is the time of the latest such answer.
C11_CooldownSuppressesRequests ==
    /\ \A c, d \in SearchIds :
          ( /\ jsearch.calls[c].pc # "idle"
            /\ d \in jsearch.calls[c].after /\ RateLimited(d)
            /\ jsearch.calls[c].startedAt < jsearch.calls[d].answeredAt + 60000 )
          => ( /\ ~jsearch.calls[c].sent
               /\ jsearch.calls[c].pc = "done"
               /\ jsearch.calls[c].returned = "empty" )
    /\ jsearch.lastRateLimitHit = LatestRateLimit

\* C11 witness: a call that started 30 s after a 429 / 403 answer sent no
\* request and returned an empty list.
C11_Witness ==
    \E c, d \in SearchIds :
        /\ RateLimited(d) /\ d \in jsearch.calls[c].after
        /\ jsearch.calls[c].pc = "done" /\ ~jsearch.calls[c].sent
        /\ jsearch.calls[c].startedAt = jsearch.calls[d].answeredAt + TickMs
        /\ jsearch.calls[c].returned = "empty"

\* the requests that are at the source after call d was answered and before
\* the 60 s that follow have passed: those still unanswered then, and those
\* sent later
Further(d) ==
    { c \in SearchIds \ {d} :
        /\ jsearch.calls[c].sent
        /\ jsearch.calls[c].pc = "waiting" \/ jsearch.calls[c].answeredAt > jsearch.calls[d].answeredAt
        /\ jsearch.calls[c].startedAt < jsearch.calls[d].answeredAt + RATE_LIMIT_COOLDOWN_MS }

\* the calls whose 429 / 403 answer was the first
FirstRateLimited ==
    { d \in SearchIds : /\ RateLimited(d)
                        /\ \A e \in SearchIds : RateLimited(e) =>
                              jsearch.calls[d].answeredAt <= jsearch.calls[e].answeredAt }

\* C21 as stated: with concurrent calls, after the first 429 / 403 answer at
\* most one further request is at the source during the following 60 s,
\* counting the requests in flight and those started afterwards.
C21_AtMostOneExtraRequest ==
    \A d \in FirstRateLimited : Cardinality(Further(d)) <= 1

\* C21, amended: every further request was already in flight when the first
\* 429 / 403 answer arrived (its call had started before that answer); no
\* call that starts after it sends a request during the following 60 s.
C21_ExtraRequestsWereInFlight ==
    \A d \in FirstRateLimited : \A c \in Further(d) :
        /\ d \notin jsearch.calls[c].after
        /\ jsearch.calls[c].startedAt <= jsearch.calls[d].answeredAt

\* C21 witness: one call was answered 429 / 403 while another was in flight,
\* and a third call, started 30 s later, sent nothing
C21_Witness ==
    \E d \in FirstRateLimited : \E c \in Further(d) : \E e \in SearchIds :
        /\ jsearch.calls[c].pc = "waiting"
        /\ d \in jsearch.calls[e].after /\ ~jsearch.calls[e].sent
        /\ jsearch.calls[e].startedAt = jsearch.calls[d].answeredAt + TickMs


(***************************************************************************)
(* The search endpoint: searchJobs                                         *)
(*                                                                         *)
(* A request is followed from await to await: the aggregate-cache read,    *)
(* aggregateJobs, the aggregate-cache write, and the scoring / matching    *)
(* that ends with the response.  Requests may overlap.  search.now is the  *)
(* time in seconds; Redis drops an entry when its TTL has run out.  Of an  *)
(* aggregate result only the number of jobs matters here.  role and        *)
(* location are sequences of tokens, preference_notes is a sequence of     *)
(* characters.                                                             *)
(***************************************************************************)
PAGE_SIZE == 5
DEFAULT_MAX_RESULTS == 50
MAX_JOBS_TO_SCORE == 60
AGGREGATE_CACHE_TTL_SECONDS == 5 * 60

\* the clock advances in steps of TickSeconds, MaxSearchTicks times at most
TickSeconds == 150
MaxSearchTicks == 2

MaxRequests == 2

RequestIds == 1..MaxRequests

Min3(a, b, c) == Min2(a, Min2(b, c))

\* Math.ceil(a / b) for a >= 0, b > 0
ceilDiv(a, b) == (a + b - 1) \div b

isDigit(ch) == ch \in {"0", "1", "2", "3", "4", "5", "6", "7", "8", "9"}

digitValue(ch) ==
    CASE ch = "0" -> 0 [] ch = "1" -> 1 [] ch = "2" -> 2 [] ch = "3" -> 3 [] ch = "4" -> 4
      [] ch = "5" -> 5 [] ch = "6" -> 6 [] ch = "7" -> 7 [] ch = "8" -> 8 [] ch = "9" -> 9

RECURSIVE skipSpaces(_, _)
\* \s* from position i: the first position that holds no white space
skipSpaces(str, i) == IF i <= Len(str) /\ str[i] = " " THEN skipSpaces(str, i + 1) ELSE i

RECURSIVE parseInt(_, _, _)
\* Number.parseInt of the digits (\d+) that start at position i
parseInt(str, i, acc) ==
    IF i <= Len(str) /\ isDigit(str[i])
    THEN parseInt(str, i + 1, 10 * acc + digitValue(str[i])) ELSE acc

\* /top\s*(\d+)/ matches at position i
topMatchAt(str, i) ==
    /\ i + 2 <= Len(str) /\ SubSeq(str, i, i + 2) = <<"t", "o", "p">>
    /\ skipSpaces(str, i + 3) <= Len(str) /\ isDigit(str[skipSpaces(str, i + 3)])

NoNotes == <<"undefined">>
NoTopLimit == 0 - 1

\* parsePreferenceNotes(notes).topLimit, NoTopLimit for null
parsePreferenceNotes(notes) ==
    IF notes = NoNotes \/ notes = <<>> THEN NoTopLimit
    ELSE LET lower == toLowerCase(notes)
             at == { i \in 1..Len(lower) : topMatchAt(lower, i) }
         IN  IF at = {} THEN NoTopLimit
             ELSE LET first == CHOOSE i \in at : \A j \in at : i <= j
                  IN  Max2(1, parseInt(lower, skipSpaces(lower, first + 3), 0))

\* lines 343-346
maxResultsOf(notes) ==
    Min2(MAX_JOBS_TO_SCORE,
         IF parsePreferenceNotes(notes) = NoTopLimit THEN DEFAULT_MAX_RESULTS
         ELSE parsePreferenceNotes(notes))

\* what deriveAggregatorCriteria gives: for no profile, for a profile with work
\* modes remote and hybrid (in either order) and an employment type, and for
\* a profile that wants remote work only
NoFilters == [workModes |-> <<>>, remoteOnly |-> FALSE, allowRemote |-> FALSE,
              employmentTypes |-> <<>>, jobRequirements |-> <<>>, primaryLocation |-> <<>>]
AggregatorFilters ==
    { NoFilters,
      [NoFilters EXCEPT !.workModes = <<"remote", "hybrid">>, !.allowRemote = TRUE,
                        !.employmentTypes = <<"FULLTIME">>],
      [NoFilters EXCEPT !.workModes = <<"hybrid", "remote">>, !.allowRemote = TRUE,
                        !.employmentTypes = <<"FULLTIME">>, !.primaryLocation = <<"Berlin">>],
      [NoFilters EXCEPT !.workModes = <<"remote">>, !.remoteOnly = TRUE, !.allowRemote = TRUE,
                        !.jobRequirements = <<"no_degree">>] }

\* lines 359-383
criteriaOf(r) ==
    [query |-> r.role,
     location |-> IF r.location # <<>> THEN r.location
                  ELSE IF r.filters.primaryLocation # <<>> THEN r.filters.primaryLocation
                  ELSE IF r.filters.remoteOnly THEN <<"Remote">> ELSE <<>>,
     limit |-> maxResultsOf(r.notes),
     remoteOnly |-> r.filters.remoteOnly,
     allowRemote |-> r.filters.allowRemote,
     workModes |-> r.filters.workModes,
     employmentTypes |-> r.filters.employmentTypes,
     jobRequirements |-> r.filters.jobRequirements,
     locationProvided |-> r.location # <<>>]

\* the strings of the three list criteria in the order of Array.prototype.sort
CodeUnitOrder == <<"FULLTIME", "hybrid", "no_degree", "remote">>

RECURSIVE joinComma(_)
joinComma(xs) ==
    IF xs = <<>> THEN "" ELSE IF Len(xs) = 1 THEN xs[1] ELSE xs[1] \o "," \o joinComma(Tail(xs))

\* xs.slice().sort().join(','), 'any' for an empty list
sortedKey(xs) ==
    IF xs = <<>> THEN "any"
    ELSE joinComma(SelectSeq(CodeUnitOrder, LAMBDA x : x \in Range(xs)))

getAggregateCacheKeyRaw(criteria) ==
    Flatten(criteria.query) \o "::" \o Flatten(criteria.location) \o "::"
        \o ToString(criteria.limit) \o "::" \o (IF criteria.remoteOnly THEN "remote" ELSE "any")
        \o "::" \o joinComma(criteria.workModes) \o "::" \o joinComma(criteria.employmentTypes)
        \o "::" \o joinComma(criteria.jobRequirements)
getAggregateCacheKey(criteria) ==
    Flatten(toLowerCase(trim(criteria.query))) \o "::"
        \o Flatten(toLowerCase(trim(criteria.location))) \o "::"
        \o ToString(criteria.limit) \o "::" \o (IF criteria.remoteOnly THEN "remote" ELSE "any")
        \o "::" \o sortedKey(criteria.workModes) \o "::" \o sortedKey(criteria.employmentTypes)
        \o "::" \o sortedKey(criteria.jobRequirements)

\* an aggregate result: the request that fetched it, meta.total and results.length
NoResult == [id |-> 0, total |-> 0, count |-> 0]

\* getAggregateFromCache: the entry stored under the key, if the read reaches
\* the cache and the entry has not expired
getAggregateFromCache(store, key, now, out) ==
    LET found == { e \in store : e.key = key /\ now < e.expires }
    IN  IF out = "ok" /\ found # {} THEN (CHOOSE e \in found : TRUE).result ELSE NoResult

\* setAggregateCache: SET key value EX AGGREGATE_CACHE_TTL_SECONDS
setAggregateCache(store, key, result, now, out) ==
    IF out = "ok"
    THEN { e \in store : e.key # key }
            \cup { [key |-> key, result |-> result, expires |-> now + AGGREGATE_CACHE_TTL_SECONDS] }
    ELSE store

\* arr.slice(start, end).length for an array of len elements, 0 <= start
sliceLength(len, start, end) == Max2(0, Min2(end, len) - Min2(start, len))

\* lines 432-439
pageWindowUnclamped(result, maxResults, requestedPage) ==
    LET scoringLimit == Min3(MAX_JOBS_TO_SCORE, result.total, maxResults)
        start == (requestedPage - 1) * PAGE_SIZE
    IN  [total |-> scoringLimit, totalPages |-> Max2(1, ceilDiv(scoringLimit, PAGE_SIZE)),
         page |-> requestedPage, start |-> start, end |-> Min2(start + PAGE_SIZE, scoringLimit)]
pageWindow(result, maxResults, requestedPage) ==
    LET scoringLimit == Min3(MAX_JOBS_TO_SCORE, result.total, maxResults)
        totalPages == Max2(1, ceilDiv(scoringLimit, PAGE_SIZE))
        page == Min2(requestedPage, totalPages)
        start == (page - 1) * PAGE_SIZE
    IN  [total |-> scoringLimit, totalPages |-> totalPages, page |-> page, start |-> start,
         end |-> Min2(start + PAGE_SIZE, scoringLimit)]

NoResponse == [code |-> 0, data |-> 0, page |-> 0, totalPages |-> 0, total |-> 0, pool |-> 0,
               matched |-> FALSE, from |-> 0]

\* the body of a 200 response: lines 452-557.  With a profile the first
\* scoringLimit jobs are scored (computeBaseScore excludes none of them),
\* sorted and paged; without one, or when scoring or matching throws, the
\* page is cut from the aggregate result as it is.
responseOf(result, maxResults, requestedPage, matched) ==
    LET w == pageWindow(result, maxResults, requestedPage)
        pool == sliceLength(result.count, 0, w.total)
    IN  [code |-> 200,
         data |-> IF matched THEN sliceLength(pool, w.start, w.end)
                  ELSE sliceLength(result.count, w.start, w.end),
         page |-> w.page, totalPages |-> w.totalPages, total |-> w.total, pool |-> pool,
         matched |-> matched, from |-> result.id]

\* after: the requests already answered when this one arrived; readSeq and
\* wroteSeq: how many aggregate results had been stored when this request
\* read the cache, and once it had stored its own
NoRequest == [pc |-> "idle", r |-> <<>>, after |-> {}, key |-> "", result |-> NoResult,
              fetched |-> FALSE, readOut |-> "", readAt |-> 0, readSeq |-> 0, wrote |-> FALSE,
              wroteAt |-> 0, wroteSeq |-> 0, resp |-> NoResponse]

InitSearch ==
    /\ IdleMatch
    /\ status = Idle
    /\ score = Idle
    /\ dedup = Idle
    /\ agg = Idle
    /\ jsearch = Idle
    /\ norm = Idle
    /\ derived = Idle
    /\ search = [now |-> 0, store |-> {}, writes |-> 0, reqs |-> [c \in RequestIds |-> NoRequest]]

OutsideSearch == <<matchVars, status, score, dedup, agg, jsearch, norm, derived>>

answer(c, code) ==
    [search EXCEPT !.reqs[c].pc = "sent", !.reqs[c].resp = [NoResponse EXCEPT !.code = code]]

\* searchJobs from its start to `await getAggregateFromCache`: lines 339-386;
\* a body that bodySchema rejects is answered 400
SearchJobs(c, r) ==
    /\ search.reqs[c].pc = "idle"
    /\ \A d \in RequestIds : d < c => search.reqs[d].pc # "idle"
    /\ search' = IF r.page < 1 THEN answer(c, 400)
                 ELSE [search EXCEPT !.reqs[c] =
                          [NoRequest EXCEPT
                              !.pc = "read", !.r = r,
                              !.after = { d \in RequestIds : search.reqs[d].pc = "sent" },
                              !.key = getAggregateCacheKey(criteriaOf(r))]]
    /\ UNCHANGED OutsideSearch

\* `await getAggregateFromCache` settles: lines 386-388
AggregateCacheRead(c, out) ==
    LET q == search.reqs[c]
        cached == getAggregateFromCache(search.store, q.key, search.now, out)
    IN  /\ q.pc = "read"
        /\ search' =
              [search EXCEPT !.reqs[c] =
                  [q EXCEPT !.pc = IF out = "error" THEN "sent"
                                   ELSE IF cached # NoResult THEN "respond" ELSE "aggregate",
                            !.resp = IF out = "error" THEN [NoResponse EXCEPT !.code = 500] ELSE @,
                            !.result = cached, !.readOut = out, !.readAt = search.now,
                            !.readSeq = search.writes]]
        /\ UNCHANGED OutsideSearch

\* `await aggregateJobs(criteria)` settles: lines 388-391
AggregateJobsReturns(c, total, raised) ==
    LET q == search.reqs[c]
        result == [id |-> c, total |-> total, count |-> Min2(total, maxResultsOf(q.r.notes))]
    IN  /\ q.pc = "aggregate"
        /\ search' =
              IF raised THEN [answer(c, 500) EXCEPT !.reqs[c].fetched = TRUE]
              ELSE [search EXCEPT !.reqs[c] =
                       [q EXCEPT !.pc = IF result.count > 0 THEN "write" ELSE "respond",
                                 !.result = result, !.fetched = TRUE]]
        /\ UNCHANGED OutsideSearch

\* `await setAggregateCache` settles: lines 391-392
AggregateCacheWrite(c, out) ==
    LET q == search.reqs[c]
    IN  /\ q.pc = "write"
        /\ search' =
              [search EXCEPT
                  !.store = setAggregateCache(search.store, q.key, q.result, search.now, out),
                  !.writes = IF out = "ok" THEN @ + 1 ELSE @,
                  !.reqs[c] =
                      [q EXCEPT !.pc = IF out = "error" THEN "sent" ELSE "respond",
                                !.resp = IF out = "error" THEN [NoResponse EXCEPT !.code = 500]
                                         ELSE @,
                                !.wrote = (out = "ok"), !.wroteAt = search.now,
                                !.wroteSeq = IF out = "ok" THEN search.writes + 1 ELSE 0]]
        /\ UNCHANGED OutsideSearch

\* the rest of the handler, to res.json: lines 395-557
Respond(c, throws) ==
    LET q == search.reqs[c]
    IN  /\ q.pc = "respond"
        /\ throws => q.r.profile
        /\ search' = [search EXCEPT !.reqs[c] =
               [q EXCEPT !.pc = "sent",
                         !.resp = responseOf(q.result, maxResultsOf(q.r.notes), q.r.page,
                                             q.r.profile /\ ~throws)]]
        /\ UNCHANGED OutsideSearch

SearchClockAdvances ==
    /\ search.now < MaxSearchTicks * TickSeconds
    /\ search' = [search EXCEPT !.now = @ + TickSeconds]
    /\ UNCHANGED OutsideSearch


(***************************************************************************)
(* Paging: one request, with preference notes of many shapes.  top is what *)
(* the notes ask for: the N of their "top N" directive, NoTopLimit when    *)
(* they hold none.                                                         *)
(***************************************************************************)
PreferenceNotes ==
    { [text |-> NoNotes, top |-> NoTopLimit],
      [text |-> <<>>, top |-> NoTopLimit],
      [text |-> <<"t", "o", "p", " ", "x">>, top |-> NoTopLimit],
      [text |-> <<"t", "o", "p", " ", "3">>, top |-> 3],
      [text |-> <<"T", "O", "P", "7">>, top |-> 7],
      [text |-> <<"t", "o", "p", " ", " ", "1", "2">>, top |-> 12],
      [text |-> <<"a", ",", " ", "T", "o", "p", " ", "1", "2">>, top |-> 12],
      [text |-> <<"t", "o", "p", " ", "6", "1">>, top |-> 61],
      [text |-> <<"t", "o", "p", " ", "0">>, top |-> 0] }

RequestedPages == {0, 1, 2, 3, 13}

\* meta.total of what aggregateJobs returns
AggregateTotals == {0, 2, 7, 64}

PagingRequests ==
    { [role |-> <<"Python">>, location |-> <<>>, notes |-> n.text, top |-> n.top, page |-> p,
       profile |-> f, filters |-> NoFilters] :
      n \in PreferenceNotes, p \in RequestedPages, f \in BOOLEAN }

NextPaging ==
    \/ \E r \in PagingRequests : SearchJobs(1, r)
    \/ \E out \in CacheOutcomes : AggregateCacheRead(1, out)
    \/ \E total \in AggregateTotals, raised \in BOOLEAN : AggregateJobsReturns(1, total, raised)
    \/ \E out \in CacheOutcomes : AggregateCacheWrite(1, out)
    \/ \E throws \in BOOLEAN : Respond(1, throws)

SpecPaging == InitSearch /\ [][NextPaging]_vars

Answered200 == { c \in RequestIds : search.reqs[c].resp.code = 200 }

\* C15: a page never carries more than 5 jobs and its number lies between 1
\* and the number of pages; when the preference notes hold a "top N"
\* directive, no more than max(1, min(N, 60)) jobs are scored and paged, and
\* a requested page past ceil(min(N, 60, total) / 5) is answered with the
\* last page.
C15_PagingBounds ==
    \A c \in Answered200 :
        LET q == search.reqs[c]
            lastPage == Max2(1, ceilDiv(Min3(q.r.top, 60, q.result.total), 5))
        IN  /\ q.resp.data <= 5
            /\ 1 <= q.resp.page /\ q.resp.page <= q.resp.totalPages
            /\ q.r.top # NoTopLimit =>
                  /\ q.resp.pool <= Max2(1, Min2(q.r.top, 60))
                  /\ q.resp.total <= Max2(1, Min2(q.r.top, 60))
                  /\ q.resp.totalPages = lastPage
                  /\ q.resp.page = Min2(q.r.page, lastPage)

\* "top 12" over 64 jobs, page 13 requested: page 3 of 3, with the last 2 of
\* the 12 jobs
C15_Witness ==
    \E c \in Answered200 :
        /\ search.reqs[c].r.top = 12 /\ search.reqs[c].r.page = 13
        /\ search.reqs[c].result.total = 64
        /\ search.reqs[c].resp.page = 3 /\ search.reqs[c].resp.data = 2
        /\ search.reqs[c].resp.pool = 12


(***************************************************************************)
(* The aggregate cache: overlapping requests, some of them with the same   *)
(* search criteria written differently.                                    *)
(***************************************************************************)
Request(role, location, notes, filters) ==
    [role |-> role, location |-> location, notes |-> notes.text, top |-> notes.top, page |-> 1,
     profile |-> filters # NoFilters, filters |-> filters]

Top3 == CHOOSE n \in PreferenceNotes : n.text = <<"t", "o", "p", " ", "3">>
Unlimited == CHOOSE n \in PreferenceNotes : n.text = NoNotes
RemoteHybrid == CHOOSE f \in AggregatorFilters : f.workModes = <<"remote", "hybrid">>
HybridRemote == CHOOSE f \in AggregatorFilters : f.workModes = <<"hybrid", "remote">>
RemoteOnly == CHOOSE f \in AggregatorFilters : f.remoteOnly

CacheRequests ==
    { Request(<<"Python">>, <<"Berlin">>, Unlimited, RemoteHybrid),
      Request(<<"python", " ">>, <<>>, Unlimited, HybridRemote),
      Request(<<"Python">>, <<"Berlin">>, Top3, RemoteHybrid),
      Request(<<"Python">>, <<>>, Unlimited, RemoteOnly) }

CachedTotals == {0, 7}

NextSearch ==
    \/ \E c \in RequestIds, r \in CacheRequests : SearchJobs(c, r)
    \/ \E c \in RequestIds, out \in CacheOutcomes : AggregateCacheRead(c, out)
    \/ \E c \in RequestIds, total \in CachedTotals, raised \in BOOLEAN :
          AggregateJobsReturns(c, total, raised)
    \/ \E c \in RequestIds, out \in CacheOutcomes : AggregateCacheWrite(c, out)
    \/ \E c \in RequestIds, throws \in BOOLEAN : Respond(c, throws)
    \/ SearchClockAdvances

SpecSearch == InitSearch /\ [][NextSearch]_vars

\* the fingerprint of a request's search criteria: role and location trimmed
\* and in lower case, the limit, the remote flag, and the three lists as sets
Fingerprint(r) ==
    <<toLowerCase(trim(criteriaOf(r).query)), toLowerCase(trim(criteriaOf(r).location)),
      criteriaOf(r).limit, criteriaOf(r).remoteOnly, Range(criteriaOf(r).workModes),
      Range(criteriaOf(r).employmentTypes), Range(criteriaOf(r).jobRequirements)>>

\* search i called the job source and got at least one job
Produced(i) ==
    search.reqs[i].fetched /\ search.reqs[i].result.id = i /\ search.reqs[i].result.count > 0

\* search j came after search i was answered, has the fingerprint of i, and
\* has read the cache before the TTL counted from i's write ran out
LaterSearches(i) ==
    { j \in RequestIds :
        /\ i \in search.reqs[j].after
        /\ Fingerprint(search.reqs[j].r) = Fingerprint(search.reqs[i].r)
        /\ search.reqs[j].readOut # ""
        /\ search.reqs[j].readAt < search.reqs[i].wroteAt + AGGREGATE_CACHE_TTL_SECONDS }

CallsSource(j) == search.reqs[j].pc = "aggregate" \/ search.reqs[j].fetched

\* the search with fingerprint of j whose result was the last one stored
\* before j read the cache
LastStored(j) ==
    { d \in RequestIds :
        /\ search.reqs[d].wrote /\ search.reqs[d].wroteSeq <= search.reqs[j].readSeq
        /\ Fingerprint(search.reqs[d].r) = Fingerprint(search.reqs[j].r)
        /\ \A e \in RequestIds :
              (/\ search.reqs[e].wrote /\ search.reqs[e].wroteSeq <= search.reqs[j].readSeq
               /\ Fingerprint(search.reqs[e].r) = Fingerprint(search.reqs[j].r))
                  => search.reqs[e].wroteSeq <= search.reqs[d].wroteSeq }

MaxNormCalls == 3

NormIds == 1..MaxNormCalls

NormJobs == {"j1", "j2"}

NoEntry == [job |-> "", normalized |-> FALSE, by |-> 0]

\* the job as the source returned it
RawJobOf(k) == [job |-> k, normalized |-> FALSE, by |-> 0]

\* { ...rawJob, normalized: {...} } as call c obtained it from the agent
NormalizedBy(k, c) == [job |-> k, normalized |-> TRUE, by |-> c]

NoNormCall == [pc |-> "idle", job |-> "", normalizedJob |-> NoEntry, hit |-> FALSE,
               returned |-> NoEntry]

InitNorm ==
    /\ IdleMatch
    /\ status = Idle
    /\ score = Idle
    /\ dedup = Idle
    /\ agg = Idle
    /\ jsearch = Idle
    /\ search = Idle
    /\ derived = Idle
    /\ norm = [store |-> [k \in NormJobs |-> NoEntry], calls |-> [c \in NormIds |-> NoNormCall],
               invoked |-> [k \in NormJobs |-> 0], expired |-> [k \in NormJobs |-> FALSE]]

OutsideNorm == <<matchVars, status, score, dedup, agg, jsearch, search, derived>>

\* lines 222-228: what the call does with the answer of getJson
afterNormalizedReadMissing(call, cached) == [call EXCEPT !.pc = "normalize"]
afterNormalizedRead(call, cached) ==
    IF cached # NoEntry THEN [call EXCEPT !.pc = "done", !.hit = TRUE, !.returned = cached]
    ELSE [call EXCEPT !.pc = "normalize"]

\* normalizeJobWithCache from its start to `await getJson`: lines 218-223
NormalizeJobWithCache(c, k) ==
    /\ norm.calls[c].pc = "idle"
    /\ \A d \in NormIds : d < c => norm.calls[d].pc # "idle"
    /\ norm' = [norm EXCEPT !.calls[c] = [NoNormCall EXCEPT !.pc = "read", !.job = k]]
    /\ UNCHANGED OutsideNorm

\* `await getJson(redisKey)` settles: lines 223-231; then normalizeJob is called
NormalizedRead(c, out) ==
    LET call == norm.calls[c]
        cached == IF out = "ok" THEN norm.store[call.job] ELSE NoEntry
        after == afterNormalizedRead(call, cached)
    IN  /\ call.pc = "read"
        /\ norm' = IF out = "error" THEN [norm EXCEPT !.calls[c].pc = "threw"]
                   ELSE [norm EXCEPT !.calls[c] = after,
                                     !.invoked[call.job] = IF after.pc = "normalize" THEN @ + 1
                                                           ELSE @]
        /\ UNCHANGED OutsideNorm

\* `await normalizationAgent.normalizeJob(job)` settles, or throws and the
\* raw job is taken: lines 231-239
NormalizeJobSettles(c, ok) ==
    LET call == norm.calls[c]
    IN  /\ call.pc = "normalize"
        /\ norm' = [norm EXCEPT !.calls[c] =
               [call EXCEPT !.pc = "write",
                            !.normalizedJob = IF ok THEN NormalizedBy(call.job, c)
                                              ELSE RawJobOf(call.job)]]
        /\ UNCHANGED OutsideNorm

\* `await setJson(redisKey, normalizedJob, TTL)` settles: lines 241-246
NormalizedWrite(c, out) ==
    LET call == norm.calls[c]
    IN  /\ call.pc = "write"
        /\ norm' = IF out = "error" THEN [norm EXCEPT !.calls[c].pc = "threw"]
                   ELSE [norm EXCEPT
                            !.store = IF out = "ok" THEN [@ EXCEPT ![call.job] = call.normalizedJob]
                                      ELSE @,
                            !.calls[c] = [call EXCEPT !.pc = "done",
                                                      !.returned = call.normalizedJob]]
        /\ UNCHANGED OutsideNorm

\* the TTL of an entry runs out
ExpireNormalized(k) ==
    /\ norm.store[k] # NoEntry
    /\ norm' = [norm EXCEPT !.store[k] = NoEntry, !.expired[k] = TRUE]
    /\ UNCHANGED OutsideNorm

NextNorm ==
    \/ \E c \in NormIds, k \in NormJobs : NormalizeJobWithCache(c, k)
    \/ \E c \in NormIds, out \in CacheOutcomes : NormalizedRead(c, out)
    \/ \E c \in NormIds, ok \in BOOLEAN : NormalizeJobSettles(c, ok)
    \/ \E c \in NormIds, out \in CacheOutcomes : NormalizedWrite(c, out)
    \/ \E k \in NormJobs : ExpireNormalized(k)

SpecNorm == InitNorm /\ [][NextNorm]_vars

\* the calls for job k that have returned
ReturnedFor(k) == { c \in NormIds : norm.calls[c].pc = "done" /\ norm.calls[c].job = k }

\* C22 as stated: for any requests, sequential or concurrent, that include
\* the same job, the normalization agent is invoked at most once for the job
\* while its cache entry has not expired, and all requests use the same
\* normalized value.
C22_NormalizedOncePerJob ==
    \A k \in NormJobs : ~norm.expired[k] =>
        /\ norm.invoked[k] <= 1
        /\ \A c, d \in ReturnedFor(k) : norm.calls[c].returned = norm.calls[d].returned

\* C22, amended: a call that reads the cache while an entry is stored for
\* its job (the read reaching the cache) returns that entry and does not
\* invoke the agent; an entry, once stored, stays until it is replaced by
\* the result of a call that had missed, or expires.
C22_StoredEntryIsReused ==
    [][ /\ \A c \in NormIds :
              (NormalizedRead(c, "ok") /\ norm.store[norm.calls[c].job] # NoEntry) =>
                  /\ norm'.calls[c].pc = "done"
                  /\ norm'.calls[c].returned = norm.store[norm.calls[c].job]
                  /\ norm'.invoked = norm.invoked
        /\ \A k \in NormJobs :
              (norm.store[k] # NoEntry /\ norm'.store[k] # norm.store[k]) =>
                  \/ ExpireNormalized(k)
                  \/ \E c \in NormIds : /\ NormalizedWrite(c, "ok")
                                        /\ norm.calls[c].job = k /\ ~norm.calls[c].hit ]_vars

\* C22 witness: a second call for a job returned the value that the first
\* had normalized and stored, and the agent was invoked once
C22_Witness ==
    \E c, d \in NormIds :
        /\ c # d /\ norm.calls[c].job = norm.calls[d].job
        /\ norm.calls[c].pc = "done" /\ ~norm.calls[c].hit /\ norm.calls[c].returned.normalized
        /\ norm.calls[d].pc = "done" /\ norm.calls[d].hit
        /\ norm.calls[d].returned = NormalizedBy(norm.calls[c].job, c)
        /\ norm.invoked[norm.calls[c].job] = 1

\* C26: every value stored under a 'job:normalized:' key is a job with the
\* normalized sub-object: when normalizeJob fails, nothing is cached, and a
\* later call for the job runs the normalization again.
C26_OnlyNormalizedJobsCached ==
    \A k \in NormJobs : norm.store[k] # NoEntry => norm.store[k].normalized


(***************************************************************************)
(* Job identities: the ids that searchJSearch gives the postings of a      *)
(* response, through uniqueById and getJobCacheKey.  A posting of the      *)
(* provider is known by its number; job_id is "" when the provider sends   *)
(* none.  dedup holds two fetches of one aggregation and their merge.      *)
(***************************************************************************)
ProviderPostings ==
    { [posting |-> 1, job_id |-> "", job_title |-> "A"],
      [posting |-> 2, job_id |-> "", job_title |-> "B"],
      [posting |-> 3, job_id |-> "", job_title |-> "A"],
      [posting |-> 4, job_id |-> "x4", job_title |-> "C"] }

\* the responses of the provider: lists of different postings
ProviderPages ==
    { page \in UNION { [1..n -> ProviderPostings] : n \in 0..MaxListLen } :
        \A i, j \in 1..Len(page) : i # j => page[i].posting # page[j].posting }

\* the callback of (data?.data || []).map((job, idx) => ...): lines 801-827
mapPosting(job, idx) ==
    [null |-> FALSE, id |-> orElse(job.job_id, "jsearch-" \o ToString(idx)), job_id |-> "",
     externalId |-> "", url |-> "", apply_link |-> "", title |-> job.job_title, company |-> "",
     location |-> "Unknown", postedAt |-> "", posting |-> job.posting, synthesized |-> job.job_id = ""]

\* idx counts from 0
mapPage(page) == [n \in 1..Len(page) |-> mapPosting(page[n], n - 1)]

NoFetch == [pc |-> "idle", first |-> <<>>, second |-> <<>>, result |-> <<>>, cacheKeys |-> <<>>]

InitIds ==
    /\ IdleMatch
    /\ status = Idle
    /\ score = Idle
    /\ dedup = NoFetch
    /\ agg = Idle
    /\ jsearch = Idle
    /\ search = Idle
    /\ norm = Idle
    /\ derived = Idle

\* the base fetch: searchJSearch maps the response
BaseFetch(page) ==
    /\ dedup.pc = "idle"
    /\ dedup' = [dedup EXCEPT !.pc = "fetched", !.first = mapPage(page)]
    /\ UNCHANGED <<matchVars, status, score, agg, jsearch, search, norm, derived>>

\* a further fetch (relaxed window, page 2 or 3) is mapped and merged:
\* uniqueById([...combined, ...more]); the controller derives the cache key
\* of every job that is left
FurtherFetch(page) ==
    /\ dedup.pc = "fetched"
    /\ LET u == uniqueById(dedup.first \o mapPage(page))
       IN  dedup' = [dedup EXCEPT !.pc = "merged", !.second = mapPage(page),
                        !.result = u.result,
                        !.cacheKeys = [n \in 1..Len(u.result) |-> getJobCacheKey(u.result[n])]]
    /\ UNCHANGED <<matchVars, status, score, agg, jsearch, search, norm, derived>>

NextIds ==
    \/ \E page \in ProviderPages : BaseFetch(page)
    \/ \E page \in ProviderPages : FurtherFetch(page)

SpecIds == InitIds /\ [][NextIds]_vars

\* the jobs of both fetches
FetchedJobs == Range(dedup.first) \cup Range(dedup.second)

\* C27: two different postings without a job_id, in one response or in
\* different fetches, get different ids, so that deduplication keeps both
\* and their cache keys differ.
C27_DistinctPostingsDistinctIds ==
    dedup.pc = "merged" =>
        \A a, b \in FetchedJobs :
            (a.posting # b.posting /\ a.synthesized /\ b.synthesized) =>
                /\ a.id # b.id
                /\ getJobCacheKey(a) # getJobCacheKey(b)
                /\ \E n \in 1..Len(dedup.result) : dedup.result[n].posting = a.posting


(***************************************************************************)
(* Match cache keys: the pairs of profile key and job key that searchJobs  *)
(* derives, and the Redis key of each pair.  derived holds the pairs made  *)
(* so far.                                                                 *)
(***************************************************************************)
\* the pairs that are followed
MaxDerived == 2

NoProfile == [null |-> TRUE, _id |-> "", id |-> "", profile_id |-> "", email |-> "",
              skills |-> <<>>, experience_years |-> 0]

\* JSON.stringify of a list of strings
RECURSIVE stringifyItems(_)
stringifyItems(xs) ==
    IF xs = <<>> THEN ""
    ELSE "\"" \o Head(xs) \o "\"" \o (IF Tail(xs) = <<>> THEN "" ELSE ",") \o stringifyItems(Tail(xs))

\* JSON.stringify({ skills, experience_years }): lines 148-151
stringifyProfile(profile) ==
    "{\"skills\":[" \o stringifyItems(profile.skills) \o "],\"experience_years\":"
        \o ToString(profile.experience_years) \o "}"

\* getProfileCacheKey: lines 140-153; "" is a missing value
getProfileCacheKey(profile, fallbackId) ==
    IF profile.null THEN "anonymous"
    ELSE orElse(profile._id, orElse(profile.id, orElse(fallbackId, orElse(profile.profile_id,
         orElse(IF profile.email # "" THEN "email:" \o profile.email ELSE "",
                stringifyProfile(profile))))))

\* the ids that uploadResume gives profiles: profile_<letters and digits>_<time>
StoredProfileIds == {"profile_ax_1", "profile_ax_12"}

\* what loadProfileById gives for a stored id, and a profile that is passed
\* without one
KeyProfiles ==
    { [NoProfile EXCEPT !.null = FALSE, !.profile_id = i, !.email = e] :
        i \in StoredProfileIds, e \in {"", "a@x.io"} }
    \cup { [NoProfile EXCEPT !.null = FALSE, !.email = e, !.skills = sk, !.experience_years = y] :
             e \in {"", "a@x.io", "b@x.io"}, sk \in {<<>>, <<"js">>}, y \in {0, 2} }

\* searchJobs passes the profile_id of the request, which loaded the profile
ProfileCalls ==
    {<<NoProfile, "">>, <<NoProfile, "profile_zz_9">>}
    \cup { <<profile, profile.profile_id>> : profile \in KeyProfiles }

\* jobs with ids of the provider, with a URL only and with neither
KeyJobs ==
    { [BlankJob EXCEPT !.id = i] : i \in {"1", "21", "jsearch-0", "a@x.io:1", "x.io:1", "io:https://h/1"} }
    \cup { [BlankJob EXCEPT !.url = u, !.title = "A"] : u \in {"https://h/1", "//h/1"} }
    \cup { [BlankJob EXCEPT !.title = t, !.company = "B"] : t \in {"A", ""} }

InitKeys ==
    /\ IdleMatch
    /\ status = Idle
    /\ score = Idle
    /\ dedup = Idle
    /\ agg = Idle
    /\ jsearch = Idle
    /\ search = Idle
    /\ norm = Idle
    /\ derived = [pc |-> "keys", made |-> {}]

\* searchJobs line 453 and getMatchOrSchedule lines 286-287 for one job
DeriveMatchKey(profile, fallbackId, job) ==
    /\ Cardinality(derived.made) < MaxDerived
    /\ LET profileKey == getProfileCacheKey(profile, fallbackId)
           jobKey == getJobCacheKey(job)
       IN  /\ jobKey # ""
           /\ derived' = [derived EXCEPT !.made = @ \cup
                  {[profileKey |-> profileKey, jobKey |-> jobKey,
                    cacheKey |-> getMatchRedisKey(profileKey, jobKey)]}]
    /\ UNCHANGED <<matchVars, status, score, dedup, agg, jsearch, search, norm>>

NextKeys == \E call \in ProfileCalls, job \in KeyJobs : DeriveMatchKey(call[1], call[2], job)

SpecKeys == InitKeys /\ [][NextKeys]_vars

\* C28: two pairs of profile key and job key that differ in either key have
\* different match cache keys, also when the keys contain ':'.
C28_MatchKeyInjective ==
    \A a, b \in derived.made :
        a.cacheKey = b.cacheKey => (a.profileKey = b.profileKey /\ a.jobKey = b.jobKey)

\* an 'email:' profile key with a URL job key, next to a job key that holds
\* the rest of that profile key
C28_Witness ==
    \E a, b \in derived.made :
        /\ a.profileKey = "email:a@x.io" /\ a.jobKey = "https://h/1"
        /\ b.profileKey = "anonymous" /\ b.jobKey = "a@x.io:1"


(***************************************************************************)
(* Polling: getMatchStatus requests between the steps of the match         *)
(* orchestration layer.                                                    *)
(***************************************************************************)
\* the keys the client polls: the match keys of a search response
PollQueries == { RealKey("j1"), Join(<< RealKey("j1"), RealKey("j2") >>) }

\* the tasks that have ended; kept with the response to tell when it was made
EndedTasks == { t \in CallIds : tasks[t].pc = "ended" }

InitPoll ==
    /\ InitMatch
    /\ status = NoStatus @@ [ended |-> {}]
    /\ score = Idle
    /\ dedup = Idle
    /\ agg = Idle
    /\ jsearch = Idle
    /\ search = Idle
    /\ norm = Idle
    /\ derived = Idle

\* a request that drops the placeholders it reads
PollMatchStatusDropping(q, outs) ==
    /\ status' = matchStatusResponse(cache, q, outs) @@ [ended |-> EndedTasks]
    /\ cache' = [k \in MatchKeys |->
                    IF k \in Range(uniqueKeysOf(q)) /\ cache[k] # NullMatch /\ cache[k].status = "pending"
                    THEN NullMatch ELSE cache[k]]
    /\ UNCHANGED <<pendingMatchComputations, calls, tasks, explainCalls, disturbed, llmConfigured>>
    /\ UNCHANGED <<score, dedup, agg, jsearch, search, norm, derived>>

\* getMatchStatus, lines 620-663, as one request among the steps of the layer:
\* it calls getJson for each key and nothing else
PollMatchStatus(q, outs) ==
    /\ status' = matchStatusResponse(cache, q, outs) @@ [ended |-> EndedTasks]
    /\ UNCHANGED <<matchVars, score, dedup, agg, jsearch, search, norm, derived>>

NextPoll ==
    \/ Next
    \/ \E q \in PollQueries, outs \in [MatchKeys -> CacheOutcomes] : PollMatchStatus(q, outs)

SpecPoll == InitPoll /\ [][NextPoll]_vars

\* no task is scheduled or running for key k
NoTaskFor(k) == k \notin pendingMatchComputations /\ ActiveTasks(k) = {}

\* C29: a getMatchStatus request changes no cache entry, leaves
\* pendingMatchComputations as it is and schedules no task; a placeholder
\* whose task has ended is changed, and a task for its key scheduled, only by
\* a step of a getMatchOrSchedule call (or the expiry of the entry).
C29_MatchStatusReadOnly ==
    [][ /\ status' # status =>
              /\ cache' = cache
              /\ pendingMatchComputations' = pendingMatchComputations
              /\ tasks' = tasks
              /\ explainCalls' = explainCalls
        /\ \A k \in MatchKeys :
              (/\ cache[k] # NullMatch
               /\ cache[k].status = "pending"
               /\ NoTaskFor(k)
               /\ \/ cache'[k] # cache[k]
                  \/ k \in pendingMatchComputations'
                  \/ \E t \in CallIds : tasks'[t].pc \in ActivePcs /\ tasks'[t].key = k)
              => \/ \E c \in CallIds : calls'[c] # calls[c]
                 \/ (cache'[k] = NullMatch /\ tasks' = tasks /\ calls' = calls) ]_vars

\* C29 witness: the task of a key failed and left the placeholder; a request
\* made after that returned the placeholder, and the entry is still pending
\* with no task for the key.
C29_Witness ==
    \E t \in CallIds :
        LET k == calls[t].key
        IN  /\ tasks[t].pc = "ended"
            /\ t \in status.ended
            /\ k \in MatchKeys
            /\ cache[k] # NullMatch
            /\ cache[k].status = "pending"
            /\ NoTaskFor(k)
            /\ status.pc = "done"
            /\ k \in status.reads
            /\ status.results[k] = cache[k]


(***************************************************************************)
(* Aggregate cache keys and the location filter: the criteria of two       *)
(* searches, their cache keys, and what the aggregator's filter does with  *)
(* one job under each.                                                     *)
(***************************************************************************)
\* normalizeUserLocation: jobController.js lines 681-694
normalizeUserLocation(input) ==
    IF toLowerCase(trim(input)) \in {<<"uk">>, <<"united kingdom">>} THEN <<"United Kingdom">>
    ELSE trim(input)

\* matchesLocation for a job without country fields: part_007 lines 83-125
matchesLocation(job, originalLower, normalizedLower) ==
    LET jobLoc == toLowerCase(job.location)
        jobParts == Range(trimmedNonEmpty(split(jobLoc)))
    IN  \/ originalLower = <<>> /\ normalizedLower = <<>>
        \/ includes(jobLoc, <<"remote">>)
        \/ originalLower # <<>> /\ includes(jobLoc, originalLower)
        \/ normalizedLower # <<>> /\ includes(jobLoc, normalizedLower)
        \/ \E part \in jobParts : originalLower # <<>> /\ includes(originalLower, part)
        \/ \E part \in jobParts : normalizedLower # <<>> /\ includes(normalizedLower, part)

\* jobMatchesAnyLocation: part_007 lines 131-142
jobMatchesAnyLocation(job, locations) ==
    \E i \in 1..Len(locations) :
        /\ locations[i] # <<>>
        /\ matchesLocation(job, toLowerCase(locations[i]),
                           toLowerCase(normalizeUserLocation(locations[i])))

RECURSIVE pushNew(_, _)
\* the loop of lines 213-218: a preferred location is added unless a
\* candidate equals it up to case
pushNew(candidates, locs) ==
    IF locs = <<>> THEN candidates
    ELSE IF \E i \in 1..Len(candidates) : toLowerCase(candidates[i]) = toLowerCase(Head(locs))
         THEN pushNew(candidates, Tail(locs))
         ELSE pushNew(Append(candidates, Head(locs)), Tail(locs))

\* locationCandidates: part_007 lines 203-218
locationCandidatesOf(criteria) ==
    pushNew(IF criteria.location # <<>> THEN <<criteria.location>> ELSE <<>>,
            trimmedNonEmpty(criteria.preferredLocations))

\* whether the job is among `filtered`: part_007 lines 207, 220-241
passesLocationFilter(criteria, job) ==
    LET candidates == locationCandidatesOf(criteria)
    IN  IF candidates = <<>> /\ ~criteria.remoteOnly THEN TRUE
        ELSE locationFilter([remoteOnly |-> criteria.remoteOnly,
                             allowRemote |-> criteria.allowRemote,
                             hasLocation |-> candidates # <<>>],
                            isRemoteJob(job), jobMatchesAnyLocation(job, candidates))

\* deriveAggregatorCriteria for profiles with work modes and preferred locations
LocationFilters ==
    { [NoFilters EXCEPT !.workModes = wm, !.remoteOnly = (wm = <<"remote">>),
                        !.allowRemote = ("remote" \in Range(wm)),
                        !.primaryLocation = IF pl = <<>> THEN <<>> ELSE pl[1]]
        @@ [preferredLocations |-> pl] :
      wm \in { <<>>, <<"remote">>, <<"hybrid", "remote">> },
      pl \in { <<>>, << <<"Berlin">> >>, << <<"Berlin">>, <<"Munich">> >>, << <<"UK">> >> } }

LocationRequests ==
    { Request(<<"Python">>, location, Unlimited, filters) :
        location \in { <<>>, <<"Berlin">>, <<"UK">> }, filters \in LocationFilters }

\* the criteria object of searchJobs: lines 364-389
searchCriteriaOf(r) == criteriaOf(r) @@ [preferredLocations |-> r.filters.preferredLocations]

FilteredJobs ==
    { [location |-> lo, remote |-> rm] :
        lo \in { <<"Berlin", ",", " ", "DE">>, <<"Munich">>, <<"United Kingdom">>, <<"Remote">> },
        rm \in BOOLEAN }

InitCriteria ==
    /\ IdleMatch
    /\ status = Idle
    /\ score = Idle
    /\ dedup = Idle
    /\ agg = Idle
    /\ jsearch = Idle
    /\ search = Idle
    /\ norm = Idle
    /\ derived = [pc |-> "criteria", searches |-> <<>>, job |-> <<>>, passes |-> <<>>]

\* searchJobs builds the criteria and the aggregate cache key: lines 364-390
DeriveCriteria(r) ==
    /\ derived.pc = "criteria"
    /\ Len(derived.searches) < MaxDerived
    /\ derived' = [derived EXCEPT !.searches =
                      Append(@, [criteria |-> searchCriteriaOf(r),
                                 aggregateKey |-> getAggregateCacheKey(searchCriteriaOf(r))])]
    /\ UNCHANGED <<matchVars, status, score, dedup, agg, jsearch, search, norm>>

\* aggregateJobs filters a job of the source under each of the criteria
ApplyLocationFilter(job) ==
    /\ derived.pc = "criteria"
    /\ Len(derived.searches) >= 2
    /\ derived' = [derived EXCEPT !.pc = "filtered", !.job = job,
                      !.passes = [i \in 1..Len(derived.searches) |->
                                     passesLocationFilter(derived.searches[i].criteria, job)]]
    /\ UNCHANGED <<matchVars, status, score, dedup, agg, jsearch, search, norm>>

NextCriteria ==
    \/ \E r \in LocationRequests : DeriveCriteria(r)
    \/ \E job \in FilteredJobs : ApplyLocationFilter(job)

SpecCriteria == InitCriteria /\ [][NextCriteria]_vars

\* the criteria agree on everything but preferredLocations, allowRemote and
\* locationProvided, and differ in one of these
DifferInLocationFilterOnly(c, d) ==
    /\ c # d
    /\ \A f \in {"query", "location", "limit", "remoteOnly", "workModes", "employmentTypes",
                 "jobRequirements"} : c[f] = d[f]

\* C30: criteria under which the location filter keeps a job and criteria
\* under which it drops the same job have different aggregate cache keys, and
\* so have criteria that differ only in preferredLocations, allowRemote or
\* locationProvided.
C30_FilteredDifferentlyNeverShareKey ==
    \A i, j \in 1..Len(derived.searches) :
        LET a == derived.searches[i]
            b == derived.searches[j]
        IN  /\ (derived.pc = "filtered" /\ derived.passes[i] # derived.passes[j])
                  => a.aggregateKey # b.aggregateKey
            /\ DifferInLocationFilterOnly(a.criteria, b.criteria)
                  => a.aggregateKey # b.aggregateKey


====
